---- MODULE Spec2Model ----
(***************************************************************************)
(* PolyCrawler: the layered birth-date resolution pipeline                 *)
(* (static table -> registry -> cache -> miss registry -> live fetch),     *)
(* its three blob stores, and the token-bucket rate limiter.               *)
(*                                                                         *)
(* Strings are sequences of one-character strings, so that toLowerCase,    *)
(* trim, split and includes are computed and not assumed.  Time is counted *)
(* in days (the two expiry tests divide the millisecond difference by one  *)
(* day and compare with a whole number of days).                           *)
(***************************************************************************)
EXTENDS Integers, Sequences, FiniteSets, TLC

VARIABLES
    now,        \* wall clock, in days since the start
    registry,   \* blob store 'birthdate-registry': key -> RegistryEntry or Nothing
    cache,      \* blob store 'wiki-cache':         key -> cached result or Nothing
    misses,     \* blob store 'misses-registry':    key -> MissEntry or Nothing
    inflight,   \* fire-and-forget store writes issued and not yet landed
    ret,        \* what the last operation returned and which calls it made
    nops,       \* number of operations run so far
    nfails,     \* number of store functions that threw so far
    deleted,    \* deleteFromRegistry has removed an entry
    fetches,    \* key -> the instants at which a resolution began a live fetch
    calls,      \* the concurrent runs of lookupPersonOptimized, each at an await
    limiter,    \* the RateLimiter instance: tokens (in thousandths of a
                \* token), lastRefill (ms), queue (ids of the waiting tasks,
                \* head first), processing
    loops,      \* the suspended runs of processQueue, each at its await
    clock,      \* Date.now() of the limiter's process, in milliseconds
    nextId,     \* id the next submitted task gets (submission order)
    settled,    \* how the promise of each submitted task settled so far
    started,    \* ids of the tasks whose fn was called, in call order
    finished    \* ids of the tasks whose fn completed, in completion order

resolverVars == <<now, registry, cache, misses, inflight, ret, nops, nfails, deleted,
                  fetches, calls>>
limiterVars == <<limiter, loops, clock, nextId, settled, started, finished>>
vars == <<now, registry, cache, misses, inflight, ret, nops, nfails, deleted,
          fetches, calls,
          limiter, loops, clock, nextId, settled, started, finished>>

(***************************************************************************)
(* JavaScript values.  An object is a record that has exactly the fields   *)
(* the object has; a string field may also hold null.                      *)
(***************************************************************************)
Null == "null"                \* the value null, of a string field
Undef == "undefined"          \* the value undefined, of a string field
Nothing == [nothing |-> TRUE] \* null where an object is expected
NoKey == <<>>                 \* null where a table key is expected

\* the fields that hold a string, null or undefined
StringFields == {"birthDate", "birthDateRaw", "wikipediaUrl", "wikipediaTitle",
                 "resolvedBirthDate", "resolvedAt", "notes", "entityType"}

\* obj.field of a string field: undefined when the object has no such field
Get(obj, f) == IF f \in DOMAIN obj THEN obj[f] ELSE Undef

\* { ...obj, ...ext }
Spread(obj, ext) ==
    [f \in (DOMAIN obj) \cup (DOMAIN ext) |->
        IF f \in DOMAIN ext THEN ext[f] ELSE obj[f]]

\* JSON.parse(JSON.stringify(obj)), what setJSON followed by get gives:
\* the fields whose value is undefined are dropped, null is kept
ToJSON(obj) ==
    [f \in {g \in DOMAIN obj : g \notin StringFields \/ obj[g] # Undef} |-> obj[f]]

\* x == null (true of null and of undefined)
IsNullish(x) == x = Null \/ x = Undef

\* a ?? b
Coalesce(a, b) == IF IsNullish(a) THEN b ELSE a

\* !x of a string field: null, undefined and '' are falsy
Falsy(x) == IsNullish(x) \/ x = ""

\* result.confidence ?? d: confidence is a number or is not there
ConfidenceOr(obj, d) == IF "confidence" \in DOMAIN obj THEN obj.confidence ELSE d

(***************************************************************************)
(* Strings as sequences of characters.                                     *)
(***************************************************************************)
ToLowerChar(c) ==
    CASE c = "A" -> "a" [] c = "B" -> "b" [] c = "C" -> "c" [] c = "D" -> "d"
      [] c = "E" -> "e" [] c = "F" -> "f" [] c = "G" -> "g" [] c = "H" -> "h"
      [] c = "I" -> "i" [] c = "J" -> "j" [] c = "K" -> "k" [] c = "L" -> "l"
      [] c = "M" -> "m" [] c = "N" -> "n" [] c = "O" -> "o" [] c = "P" -> "p"
      [] c = "Q" -> "q" [] c = "R" -> "r" [] c = "S" -> "s" [] c = "T" -> "t"
      [] c = "U" -> "u" [] c = "V" -> "v" [] c = "W" -> "w" [] c = "X" -> "x"
      [] c = "Y" -> "y" [] c = "Z" -> "z" [] OTHER -> c

\* String.prototype.toLowerCase
ToLowerCase(s) == [i \in 1..Len(s) |-> ToLowerChar(s[i])]

IsSpace(c) == c = " "

\* a word character of a regular expression (\w)
IsWordChar(c) ==
    c \in {"a", "b", "c", "d", "e", "f", "g", "h", "i", "j", "k", "l", "m", "n",
           "o", "p", "q", "r", "s", "t", "u", "v", "w", "x", "y", "z",
           "A", "B", "C", "D", "E", "F", "G", "H", "I", "J", "K", "L", "M", "N",
           "O", "P", "Q", "R", "S", "T", "U", "V", "W", "X", "Y", "Z",
           "0", "1", "2", "3", "4", "5", "6", "7", "8", "9", "_"}

RECURSIVE TrimStart(_)
TrimStart(s) ==
    IF s # <<>> /\ IsSpace(Head(s)) THEN TrimStart(Tail(s)) ELSE s

RECURSIVE TrimEnd(_)
TrimEnd(s) ==
    IF s # <<>> /\ IsSpace(s[Len(s)]) THEN TrimEnd(SubSeq(s, 1, Len(s) - 1)) ELSE s

\* String.prototype.trim
Trim(s) == TrimEnd(TrimStart(s))

\* s.replace(/['']/g, "'")
RECURSIVE ReplaceApostrophes(_)
ReplaceApostrophes(s) ==
    IF s = <<>> THEN <<>>
    ELSE <<(IF Head(s) = "'" THEN "'" ELSE Head(s))>> \o ReplaceApostrophes(Tail(s))

\* s.replace(/\s+/g, ' ')
RECURSIVE CollapseSpaces(_)
CollapseSpaces(s) ==
    IF s = <<>> THEN <<>>
    ELSE IF IsSpace(Head(s))
         THEN <<" ">> \o CollapseSpaces(TrimStart(Tail(s)))
         ELSE <<Head(s)>> \o CollapseSpaces(Tail(s))

normalizeName(name) == CollapseSpaces(ReplaceApostrophes(Trim(ToLowerCase(name))))

\* a.includes(b)
Includes(a, b) ==
    \E i \in 0..(Len(a) - Len(b)) : SubSeq(a, i + 1, i + Len(b)) = b

\* s.split(/\s+/): the runs of non-space characters; a leading or trailing
\* run of spaces gives an empty first or last piece
RECURSIVE SplitAcc(_, _, _)
SplitAcc(s, cur, acc) ==
    IF s = <<>> THEN Append(acc, cur)
    ELSE IF IsSpace(Head(s))
         THEN SplitAcc(TrimStart(Tail(s)), <<>>, Append(acc, cur))
         ELSE SplitAcc(Tail(s), Append(cur, Head(s)), acc)

Split(s) == SplitAcc(s, <<>>, <<>>)

(***************************************************************************)
(* The static table (data/celebrities.json) and its lookup.                *)
(***************************************************************************)
DonaldTrump == <<"d", "o", "n", "a", "l", "d", " ", "t", "r", "u", "m", "p">>
JoeBiden == <<"j", "o", "e", " ", "b", "i", "d", "e", "n">>

\* Object.keys(celebrities.celebrities), in insertion order
CelebrityKeys == <<DonaldTrump, JoeBiden>>

celebrities ==
    [k \in {DonaldTrump, JoeBiden} |->
        IF k = DonaldTrump
        THEN [birthDate |-> "June 14, 1946", birthDateRaw |-> "1946-06-14",
              wikipediaUrl |-> "wiki/Donald_Trump", confidence |-> 100]
        ELSE [birthDate |-> "November 20, 1942", birthDateRaw |-> "1942-11-20",
              wikipediaUrl |-> "wiki/Joe_Biden", confidence |-> 100]]

\* one iteration of the loop of fuzzyMatchCelebrity
FuzzyMatches(name, celebName) ==
    LET nameParts == Split(name)
        celebParts == Split(celebName)
    IN  \/ /\ Len(nameParts) = 1
           /\ celebParts[Len(celebParts)] = nameParts[1]
        \/ Includes(name, celebName)
        \/ Includes(celebName, name)
        \/ /\ Len(nameParts) >= 2
           /\ Len(celebParts) >= 2
           /\ nameParts[Len(nameParts)] = celebParts[Len(celebParts)]
           /\ Head(nameParts[1]) = Head(celebParts[1])

\* the first key of the table that matches, or null
fuzzyMatchCelebrity(name) ==
    LET hits == {i \in 1..Len(CelebrityKeys) : FuzzyMatches(name, CelebrityKeys[i])}
    IN  IF hits = {} THEN NoKey
        ELSE CelebrityKeys[CHOOSE i \in hits : \A j \in hits : i <= j]

CelebrityResult(celeb) ==
    [found |-> TRUE, birthDate |-> celeb.birthDate, birthDateRaw |-> celeb.birthDateRaw,
     wikipediaUrl |-> celeb.wikipediaUrl, confidence |-> celeb.confidence,
     status |-> <<"Found">>, source |-> "celebrity-db"]

getCelebrityData(name) ==
    LET normalized == normalizeName(name)
        match == fuzzyMatchCelebrity(normalized)
    IN  IF normalized \in DOMAIN celebrities
        THEN CelebrityResult(celebrities[normalized])
        ELSE IF match # NoKey
             THEN Spread(CelebrityResult(celebrities[match]), [matchedAs |-> match])
             ELSE Nothing

(***************************************************************************)
(* Entity-type detection (misses-registry).                                *)
(***************************************************************************)
\* a word boundary (\b) of s between positions i and i + 1
Boundary(s, i) ==
    LET before == i >= 1 /\ IsWordChar(s[i])
        after == i + 1 <= Len(s) /\ IsWordChar(s[i + 1])
    IN  before # after

\* /\b(w)\b/.test(s)
HasWord(s, w) ==
    \E i \in 0..(Len(s) - Len(w)) :
        /\ SubSeq(s, i + 1, i + Len(w)) = w
        /\ Boundary(s, i)
        /\ Boundary(s, i + Len(w))

\* /\bthe\s+\w+s\b/.test(s)
HasTheWords(s) ==
    \E i \in 0..(Len(s) - 3) : \E j \in (i + 4)..Len(s) : \E k \in (j + 2)..Len(s) :
        /\ SubSeq(s, i + 1, i + 3) = <<"t", "h", "e">>
        /\ Boundary(s, i)
        /\ \A m \in (i + 4)..j : IsSpace(s[m])
        /\ \A m \in (j + 1)..k : IsWordChar(s[m])
        /\ s[k] = "s"
        /\ Boundary(s, k)

BandWords ==
    {<<"a", "n", "d">>,
     <<"b", "a", "n", "d">>,
     <<"g", "r", "o", "u", "p">>,
     <<"d", "u", "o">>,
     <<"t", "r", "i", "o">>,
     <<"q", "u", "a", "r", "t", "e", "t">>,
     <<"d", "i", "r", "e", "c", "t", "i", "o", "n">>,
     <<"b", "a", "c", "k", "s", "t", "r", "e", "e", "t">>,
     <<"b", "o", "y", "s">>,
     <<"g", "i", "r", "l", "s">>,
     <<"s", "p", "i", "c", "e">>}
RoleWords ==
    {<<"s", "e", "c", "r", "e", "t", "a", "r", "y">>,
     <<"m", "i", "n", "i", "s", "t", "e", "r">>,
     <<"d", "i", "r", "e", "c", "t", "o", "r">>,
     <<"c", "h", "a", "i", "r", "m", "a", "n">>,
     <<"p", "r", "e", "s", "i", "d", "e", "n", "t">>,
     <<"c", "e", "o">>,
     <<"c", "f", "o">>,
     <<"o", "f", " ", "s", "t", "a", "t", "e">>,
     <<"o", "f", " ", "d", "e", "f", "e", "n", "s", "e">>,
     <<"o", "f", " ", "t", "r", "e", "a", "s", "u", "r", "y">>,
     <<"o", "f", " ", "c", "o", "m", "m", "e", "r", "c", "e">>,
     <<"g", "e", "n", "e", "r", "a", "l">>,
     <<"a", "d", "m", "i", "r", "a", "l">>,
     <<"c", "o", "m", "m", "a", "n", "d", "e", "r">>}
OrgWords ==
    {<<"i", "n", "c">>,
     <<"c", "o", "r", "p">>,
     <<"l", "l", "c">>,
     <<"l", "t", "d">>,
     <<"c", "o", "m", "p", "a", "n", "y">>,
     <<"f", "o", "u", "n", "d", "a", "t", "i", "o", "n">>,
     <<"i", "n", "s", "t", "i", "t", "u", "t", "e">>,
     <<"u", "n", "i", "v", "e", "r", "s", "i", "t", "y">>,
     <<"c", "o", "l", "l", "e", "g", "e">>,
     <<"s", "c", "h", "o", "o", "l">>,
     <<"a", "c", "a", "d", "e", "m", "y">>,
     <<"p", "a", "r", "t", "y">>,
     <<"c", "o", "m", "m", "i", "t", "t", "e", "e">>,
     <<"c", "o", "u", "n", "c", "i", "l">>,
     <<"c", "o", "m", "m", "i", "s", "s", "i", "o", "n">>}

detectEntityType(name) ==
    LET lower == ToLowerCase(name)
    IN  IF HasTheWords(lower) \/ \E w \in BandWords : HasWord(lower, w)
        THEN [type |-> "band", confidence |-> 70]
        ELSE IF \E w \in RoleWords : HasWord(lower, w)
        THEN [type |-> "role", confidence |-> 60]
        ELSE IF \E w \in OrgWords : HasWord(lower, w)
        THEN [type |-> "organization", confidence |-> 70]
        ELSE [type |-> "unknown", confidence |-> 0]

(***************************************************************************)
(* Program constants.                                                      *)
(***************************************************************************)
CACHE_TTL_DAYS == 30
MISS_COOLDOWN_DAYS == 7
MIN_CONFIDENCE_FOR_REGISTRY == 80
\* maxRetries of fetchFromWikipediaWithRetry
WIKI_MAX_RETRIES == 2

(***************************************************************************)
(* Bounds of the model and the inputs it draws.                            *)
(***************************************************************************)
MaxOps == 3         \* operations in one run
MaxTime == 30       \* the clock stops here
MaxInflight == 1    \* fire-and-forget writes in flight at once
MaxFail == 1        \* store functions that throw in one run

\* the names the callers pass: a fuzzy hit of the static table, and a name
\* that is not in it, is a role by its words, and is not its own key
NameTrump == <<"T", "r", "u", "m", "p">>
NameOfState == <<"O", "f", " ", "S", "t", "a", "t", "e", " ">>
Names == {NameTrump, NameOfState}

\* normalizeName, getCelebrityData and detectEntityType of these names,
\* computed once
normalizedName == [n \in Names |-> normalizeName(n)]
celebrityData == [n \in Names |-> getCelebrityData(n)]
entityDetected == [n \in Names |-> detectEntityType(n)]
\* the keys of the three stores
Keys == {normalizedName[n] : n \in Names}

\* the instants at which the model looks at the clock, in days: around a
\* cooldown and around a TTL after day 0
Instants == {0, MISS_COOLDOWN_DAYS - 1, MISS_COOLDOWN_DAYS,
             CACHE_TTL_DAYS - 1, CACHE_TTL_DAYS}

\* the store functions whose blob-store call can throw, so that their catch
\* block runs
StoreCalls == {"getFromRegistry", "addToRegistry", "updateAccessMetadata",
               "addNameVariant", "deleteFromRegistry",
               "getCachedResult", "setCachedResult",
               "checkMissesRegistry", "addToMissesRegistry", "updateMissSeenCount"}
\* the ways the functions in 'called' can throw during one operation
FailSets(called) ==
    {f \in SUBSET (called \cap StoreCalls) : nfails + Cardinality(f) <= MaxFail}

(***************************************************************************)
(* Retry with exponential backoff (utils.js) and the knowledge-source      *)
(* fetch as the orchestrator sees it.                                      *)
(***************************************************************************)
DigitChars == <<"0", "1", "2", "3", "4", "5", "6", "7", "8", "9">>

\* `${n}` of a non-negative integer
RECURSIVE Decimal(_)
Decimal(n) ==
    IF n < 10 THEN <<DigitChars[n + 1]>>
    ELSE Decimal(n \div 10) \o <<DigitChars[(n % 10) + 1]>>

\* the messages of the errors a fetch attempt can end with
MsgQueueFull(maxQueueSize) == <<"R", "a", "t", "e", " ", "l", "i", "m", "i", "t", "e", "r", " ", "q", "u", "e", "u", "e", " ", "f", "u", "l", "l", " ", "(", "m", "a", "x", " ">> \o Decimal(maxQueueSize) \o <<")">>
MsgNetwork == <<"f", "e", "t", "c", "h", " ", "f", "a", "i", "l", "e", "d">>
MsgSearchFailed(status) == <<"W", "i", "k", "i", "p", "e", "d", "i", "a", " ", "s", "e", "a", "r", "c", "h", " ", "f", "a", "i", "l", "e", "d", ":", " ">> \o Decimal(status)
MsgContentFailed == <<"W", "i", "k", "i", "p", "e", "d", "i", "a", " ", "c", "o", "n", "t", "e", "n", "t", " ", "f", "e", "t", "c", "h", " ", "f", "a", "i", "l", "e", "d">>

\* what one invocation of fn gave: it returned a value, or threw an error;
\* 'remote' says whether fetchFromWikipedia was run at all (the limiter
\* rejects a task without running it)
Returned(v) == [kind |-> "returned", value |-> v, remote |-> TRUE]
Threw(msg) == [kind |-> "threw", message |-> msg, remote |-> TRUE]
Rejected(msg) == [kind |-> "threw", message |-> msg, remote |-> FALSE]

\* a predicate that retries every error
WikiShouldRetryEvery(message) == TRUE

\* shouldRetry of fetchFromWikipediaWithRetry
WikiShouldRetry(message) ==
    IF Includes(message, <<"R", "a", "t", "e", " ", "l", "i", "m", "i", "t", "e", "r", " ", "q", "u", "e", "u", "e", " ", "f", "u", "l", "l">>) THEN FALSE
    ELSE \/ Includes(message, <<"f", "e", "t", "c", "h">>)
         \/ Includes(message, <<"5", "0", "0">>)
         \/ Includes(message, <<"5", "0", "2">>)
         \/ Includes(message, <<"5", "0", "3">>)

\* options.shouldRetry: the default retries every error
shouldRetry(options, message) ==
    IF options.policy = "wikipedia" THEN WikiShouldRetry(message) ELSE TRUE

Min(a, b) == IF a <= b THEN a ELSE b

RECURSIVE Pow2(_)
Pow2(n) == IF n = 0 THEN 1 ELSE 2 * Pow2(n - 1)

\* the loop of withRetry from iteration 'attempt' on; outs[i] is what the
\* i-th invocation of fn gives.  The result tells how the loop ended, how
\* often fn was invoked, the onRetry calls and the waits made; it is pending
\* when the loop invokes fn more often than outs has answers.
RECURSIVE RetryLoop(_, _, _, _)
RetryLoop(outs, options, attempt, acc) ==
    LET out == outs[attempt + 1]
        acc1 == [acc EXCEPT !.calls = @ + 1,
                            !.remote = @ + (IF out.remote THEN 1 ELSE 0)]
        delay == Min(options.baseDelayMs * Pow2(attempt), options.maxDelayMs)
    IN  IF attempt + 1 > Len(outs) THEN [acc EXCEPT !.pending = TRUE]
        ELSE IF out.kind = "returned"
        THEN [acc1 EXCEPT !.ok = TRUE, !.value = out.value]
        ELSE IF attempt = options.maxRetries \/ ~shouldRetry(options, out.message)
             THEN [acc1 EXCEPT !.ok = FALSE, !.message = out.message]
             ELSE RetryLoop(outs, options, attempt + 1,
                            [acc1 EXCEPT !.onRetry = Append(@, attempt + 1),
                                         !.waits = Append(@, delay)])

\* a loop that makes one iteration too many
withRetryOneMore(outs, options) ==
    RetryLoop(outs, [options EXCEPT !.maxRetries = @ + 1], 0,
              [ok |-> FALSE, pending |-> FALSE, value |-> Nothing, message |-> <<>>,
               calls |-> 0, remote |-> 0, onRetry |-> <<>>, waits |-> <<>>])

withRetry(outs, options) ==
    RetryLoop(outs, options, 0,
              [ok |-> FALSE, pending |-> FALSE, value |-> Nothing, message |-> <<>>,
               calls |-> 0, remote |-> 0, onRetry |-> <<>>, waits |-> <<>>])

WikiRetryOptions ==
    [maxRetries |-> WIKI_MAX_RETRIES, baseDelayMs |-> 500, maxDelayMs |-> 3000,
     policy |-> "wikipedia"]

\* what extractBirthDateWithConfidence gives for the pages of the model:
\* a full date at the threshold of the registry, a year only
BirthInfos ==
    {[formatted |-> "May 4, 1970", raw |-> "1970-05-04", confidence |-> 80],
     [formatted |-> "1970 (year only)", raw |-> "1970", confidence |-> 60]}

WikipediaUrl == "https://en.wikipedia.org/wiki/Page"

\* the three return statements of fetchFromWikipedia
PageNotFound ==
    [found |-> FALSE, status |-> <<"Wikipedia page not found">>, source |-> "wikipedia"]
PageWithDate(birthInfo) ==
    [found |-> TRUE, wikipediaUrl |-> WikipediaUrl, birthDate |-> birthInfo.formatted,
     birthDateRaw |-> birthInfo.raw, confidence |-> birthInfo.confidence,
     status |-> <<"Found">>, source |-> "wikipedia"]
PageWithoutDate ==
    [found |-> TRUE, wikipediaUrl |-> WikipediaUrl, birthDate |-> Null,
     birthDateRaw |-> Null, confidence |-> 0,
     status |-> <<"Birth date not found on Wikipedia">>, source |-> "wikipedia"]

FetchResults == {PageNotFound, PageWithoutDate} \cup {PageWithDate(b) : b \in BirthInfos}

\* what one attempt of the rate-limited fetch can give
AttemptOutcomes ==
    {Returned(r) : r \in FetchResults}
    \cup {Rejected(MsgQueueFull(100)), Threw(MsgNetwork)}

\* the answers of the environment to the attempts of one live fetch: every
\* answer is used by the retry loop.  A fetch that is retried ends with a
\* dated page or with the error it began with.
AttemptSeqs ==
    {outs \in UNION {[1..n -> AttemptOutcomes] : n \in 1..(WIKI_MAX_RETRIES + 1)} :
        LET r == withRetry(outs, WikiRetryOptions)
        IN  /\ ~r.pending
            /\ r.calls = Len(outs)
            /\ \A i \in 1..(Len(outs) - 1) : outs[i] = outs[1]
            /\ Len(outs) > 1 =>
                   outs[Len(outs)] \in {outs[1], Returned(PageWithDate(
                       [formatted |-> "May 4, 1970", raw |-> "1970-05-04",
                        confidence |-> 80]))}}

\* fetchFromWikipediaWithRetry: the value of withRetry, or the error result
\* of its catch handler
fetchFromWikipediaWithRetry(outs) ==
    LET r == withRetry(outs, WikiRetryOptions)
    IN  [result |-> IF r.ok THEN r.value
                    ELSE [found |-> FALSE, status |-> <<"Error: ", r.message>>,
                          source |-> "wikipedia-error"],
         remote |-> r.remote]

\* fetchFromWikipediaWithRetry of the answers of the model, computed once
wikipediaFetch == [outs \in AttemptSeqs |-> fetchFromWikipediaWithRetry(outs)]

(***************************************************************************)
(* The persistent registry (birthdate-registry).  Each function takes the  *)
(* set of store calls that fail during the operation it is part of.        *)
(***************************************************************************)
\* qualifiesForRegistry without its confidence test
qualifiesAtAnyConfidence(result) ==
    /\ result.found
    /\ ~IsNullish(Get(result, "birthDate"))
    /\ ~IsNullish(Get(result, "birthDateRaw"))

qualifiesForRegistry(result) ==
    /\ result.found
    /\ ~IsNullish(Get(result, "birthDate"))
    /\ ~IsNullish(Get(result, "birthDateRaw"))
    /\ ConfidenceOr(result, 0) >= MIN_CONFIDENCE_FOR_REGISTRY

\* the write updateAccessMetadata issues; nobody waits for it
updateAccessMetadata(key, entry, fails) ==
    IF "updateAccessMetadata" \in fails THEN {}
    ELSE {[store |-> "registry", key |-> key,
           value |-> Spread(entry, [lastAccessedAt |-> now,
                                    accessCount |-> entry.accessCount + 1])]}

\* the value returned and the fire-and-forget write issued
\* a lookup whose store failure is handed to the caller
getFromRegistryUncaught(name, fails) ==
    LET key == normalizedName[name]
        entry == registry[key]
    IN  IF "getFromRegistry" \in fails
        THEN [result |-> [error |-> "Registry read failed"], fire |-> {}]
        ELSE IF entry = Nothing
        THEN [result |-> Nothing, fire |-> {}]
        ELSE [result |-> ToJSON([found |-> TRUE, birthDate |-> entry.birthDate,
                                 birthDateRaw |-> entry.birthDateRaw,
                                 wikipediaUrl |-> Get(entry, "wikipediaUrl"),
                                 confidence |-> entry.confidence,
                                 status |-> <<"Found">>, source |-> "registry"]),
              fire |-> updateAccessMetadata(key, entry, fails)]

getFromRegistry(name, fails) ==
    LET key == normalizedName[name]
        entry == registry[key]
    IN  IF "getFromRegistry" \in fails \/ entry = Nothing
        THEN [result |-> Nothing, fire |-> {}]
        ELSE [result |-> ToJSON([found |-> TRUE, birthDate |-> entry.birthDate,
                                 birthDateRaw |-> entry.birthDateRaw,
                                 wikipediaUrl |-> Get(entry, "wikipediaUrl"),
                                 confidence |-> entry.confidence,
                                 status |-> <<"Found">>, source |-> "registry"]),
              fire |-> updateAccessMetadata(key, entry, fails)]

\* the registry after the call and the value returned
\* the entry addToRegistry builds over the entry it read
RegistryEntry(result, originalSource, existing) ==
    ToJSON(
        [birthDate |-> result.birthDate,
         birthDateRaw |-> result.birthDateRaw,
         wikipediaUrl |-> Get(result, "wikipediaUrl"),
         confidence |-> ConfidenceOr(result, MIN_CONFIDENCE_FOR_REGISTRY),
         addedAt |-> IF existing = Nothing THEN now ELSE existing.addedAt,
         lastAccessedAt |-> now,
         accessCount |-> (IF existing = Nothing THEN 0 ELSE existing.accessCount) + 1,
         source |-> IF existing = Nothing THEN originalSource ELSE existing.source,
         variants |-> IF existing = Nothing THEN <<>> ELSE existing.variants])

addToRegistry(name, result, originalSource, fails) ==
    LET key == normalizedName[name]
        entry == RegistryEntry(result, originalSource, registry[key])
    IN  IF ~qualifiesForRegistry(result) \/ "addToRegistry" \in fails
        THEN [registry |-> registry, added |-> FALSE]
        ELSE [registry |-> [registry EXCEPT ![key] = entry], added |-> TRUE]

SeqIncludes(seq, x) == \E i \in 1..Len(seq) : seq[i] = x

addNameVariant(variant, canonicalName, fails) ==
    LET canonicalKey == normalizedName[canonicalName]
        variantKey == normalizedName[variant]
        entry == registry[canonicalKey]
        linked == IF SeqIncludes(entry.variants, variantKey) THEN entry
                  ELSE [entry EXCEPT !.variants = Append(@, variantKey)]
    IN  IF "addNameVariant" \in fails THEN [registry |-> registry, added |-> FALSE]
        ELSE IF entry = Nothing THEN [registry |-> registry, added |-> FALSE]
        ELSE [registry |-> [registry EXCEPT ![canonicalKey] = linked,
                                            ![variantKey] = linked],
              added |-> TRUE]

deleteFromRegistry(name, fails) ==
    IF "deleteFromRegistry" \in fails THEN [registry |-> registry, deleted |-> FALSE]
    ELSE [registry |-> [registry EXCEPT ![normalizedName[name]] = Nothing],
          deleted |-> TRUE]

(***************************************************************************)
(* The TTL cache (wiki-cache).                                             *)
(***************************************************************************)
\* getCachedResult with an entry still valid at the end of its TTL
getCachedResultInclusive(name, fails) ==
    LET key == normalizedName[name]
        cached == cache[key]
    IN  IF "getCachedResult" \in fails \/ cached = Nothing THEN Nothing
        ELSE IF now - cached.cachedAt <= CACHE_TTL_DAYS
             THEN Spread(cached, [source |-> "cache"])
             ELSE Nothing

\* a cache whose entries expire before the cooldown of a miss is over
getCachedResultShortLived(name, fails) ==
    LET key == normalizedName[name]
        cached == cache[key]
    IN  IF "getCachedResult" \in fails \/ cached = Nothing THEN Nothing
        ELSE IF now - cached.cachedAt < MISS_COOLDOWN_DAYS - 1
             THEN Spread(cached, [source |-> "cache"])
             ELSE Nothing

getCachedResult(name, fails) ==
    LET key == normalizedName[name]
        cached == cache[key]
    IN  IF "getCachedResult" \in fails \/ cached = Nothing THEN Nothing
        ELSE IF now - cached.cachedAt < CACHE_TTL_DAYS
             THEN Spread(cached, [source |-> "cache"])
             ELSE Nothing

\* setCachedResult that keeps negative results out of the cache
setCachedResultFoundOnly(name, result, fails) ==
    IF "setCachedResult" \in fails \/ ~result.found THEN cache
    ELSE [cache EXCEPT ![normalizedName[name]] =
              ToJSON(Spread(result, [cachedAt |-> now]))]

\* a write that leaves the error results of the fetch out of the cache
setCachedResultNoErrors(name, result, fails) ==
    IF "setCachedResult" \in fails \/ result.source = "wikipedia-error" THEN cache
    ELSE [cache EXCEPT ![normalizedName[name]] =
              ToJSON(Spread(result, [cachedAt |-> now]))]

\* a write that merges the result into the entry already stored
setCachedResultMerging(name, result, fails) ==
    LET key == normalizedName[name]
        fresh == Spread(result, [cachedAt |-> now])
    IN  IF "setCachedResult" \in fails THEN cache
        ELSE [cache EXCEPT ![key] =
                  ToJSON(IF cache[key] = Nothing THEN fresh ELSE Spread(cache[key], fresh))]

\* the cache after the call
setCachedResult(name, result, fails) ==
    IF "setCachedResult" \in fails THEN cache
    ELSE [cache EXCEPT ![normalizedName[name]] =
              ToJSON(Spread(result, [cachedAt |-> now]))]

(***************************************************************************)
(* The miss registry (misses-registry).                                    *)
(***************************************************************************)
\* an update that counts the lookup and keeps the date
updateMissSeenCountOnly(key, entry, fails) ==
    IF "updateMissSeenCount" \in fails THEN {}
    ELSE {[store |-> "misses", key |-> key,
           value |-> Spread(entry, [seenCount |-> entry.seenCount + 1])]}

\* the write updateMissSeenCount issues; nobody waits for it
updateMissSeenCount(key, entry, fails) ==
    IF "updateMissSeenCount" \in fails THEN {}
    ELSE {[store |-> "misses", key |-> key,
           value |-> Spread(entry, [lastSeenAt |-> now,
                                    seenCount |-> entry.seenCount + 1])]}

\* checkMissesRegistry without its cooldown test
checkMissesRegistryForever(name, fails) ==
    LET key == normalizedName[name]
        entry == misses[key]
    IN  IF "checkMissesRegistry" \in fails \/ entry = Nothing
        THEN [entry |-> Nothing, fire |-> {}]
        ELSE [entry |-> entry, fire |-> updateMissSeenCount(key, entry, fails)]

\* a check that hands an expired entry to the caller
checkMissesRegistryTelemetry(name, fails) ==
    LET key == normalizedName[name]
        entry == misses[key]
    IN  IF "checkMissesRegistry" \in fails \/ entry = Nothing
        THEN [entry |-> Nothing, fire |-> {}]
        ELSE IF now - entry.lastSeenAt < MISS_COOLDOWN_DAYS
             THEN [entry |-> entry, fire |-> updateMissSeenCount(key, entry, fails)]
             ELSE [entry |-> entry, fire |-> {}]

\* the entry returned (null unless in cooldown) and the write issued
checkMissesRegistry(name, fails) ==
    LET key == normalizedName[name]
        entry == misses[key]
    IN  IF "checkMissesRegistry" \in fails \/ entry = Nothing
        THEN [entry |-> Nothing, fire |-> {}]
        ELSE IF now - entry.lastSeenAt < MISS_COOLDOWN_DAYS
             THEN [entry |-> entry, fire |-> updateMissSeenCount(key, entry, fails)]
             ELSE [entry |-> Nothing, fire |-> {}]

\* a list cut to its first three elements
FirstThree(seq) == IF Len(seq) <= 3 THEN seq ELSE SubSeq(seq, 1, 3)

\* [...list, x].slice(-3)
LastThree(seq) == IF Len(seq) <= 3 THEN seq ELSE SubSeq(seq, Len(seq) - 2, Len(seq))

\* the entry addToMissesRegistry builds over the entry it read; options
\* holds wikipediaUrl, wikipediaTitle, marketTitle and entityType (undefined
\* when not given)
MissEntry(name, reason, options, existing) ==
    LET had == existing # Nothing
        old == IF had THEN existing.sampleMarkets ELSE <<>>
        sampleMarkets ==
            IF ~Falsy(options.marketTitle) /\ ~SeqIncludes(old, options.marketTitle)
            THEN LastThree(Append(old, options.marketTitle))
            ELSE old
    IN  ToJSON(
            [originalName |-> IF had THEN existing.originalName ELSE name,
             reason |-> reason,
             firstSeenAt |-> IF had THEN existing.firstSeenAt ELSE now,
             lastSeenAt |-> now,
             seenCount |-> (IF had THEN existing.seenCount ELSE 0) + 1,
             entityType |-> Coalesce(options.entityType,
                                Coalesce(IF had THEN existing.entityType ELSE Undef,
                                         "unknown")),
             entityTypeConfidence |-> IF had THEN existing.entityTypeConfidence ELSE 0,
             wikipediaUrl |-> Coalesce(options.wikipediaUrl,
                                 IF had THEN Get(existing, "wikipediaUrl") ELSE Undef),
             wikipediaTitle |-> Coalesce(options.wikipediaTitle,
                                   IF had THEN Get(existing, "wikipediaTitle") ELSE Undef),
             sampleMarkets |-> sampleMarkets,
             resolvedBirthDate |-> IF had THEN Get(existing, "resolvedBirthDate") ELSE Undef,
             resolvedAt |-> IF had THEN Get(existing, "resolvedAt") ELSE Undef,
             notes |-> IF had THEN Get(existing, "notes") ELSE Undef])

\* an add that builds a new entry whatever the store holds
addToMissesRegistryAnew(name, reason, options, fails) ==
    LET key == normalizedName[name]
        entry == MissEntry(name, reason, options, Nothing)
    IN  IF "addToMissesRegistry" \in fails THEN misses
        ELSE [misses EXCEPT ![key] = entry]

\* the miss registry after the call
addToMissesRegistry(name, reason, options, fails) ==
    LET key == normalizedName[name]
        entry == MissEntry(name, reason, options, misses[key])
    IN  IF "addToMissesRegistry" \in fails THEN misses
        ELSE [misses EXCEPT ![key] = entry]

\* a resolution that also refreshes lastSeenAt
resolveMissTouching(name, birthDate, notes, fails) ==
    LET key == normalizedName[name]
        existing == misses[key]
    IN  IF "resolveMiss" \in fails \/ existing = Nothing
        THEN [misses |-> misses, resolved |-> FALSE]
        ELSE [misses |-> [misses EXCEPT ![key] =
                             ToJSON(Spread(existing,
                                 [resolvedBirthDate |-> birthDate,
                                  resolvedAt |-> ToString(now),
                                  lastSeenAt |-> now,
                                  notes |-> Coalesce(notes, Get(existing, "notes"))]))],
              resolved |-> TRUE]

\* resolveMiss(name, birthDate, notes): the miss registry after the call and
\* the value returned; resolvedAt is the instant as a string
resolveMiss(name, birthDate, notes, fails) ==
    LET key == normalizedName[name]
        existing == misses[key]
    IN  IF "resolveMiss" \in fails \/ existing = Nothing
        THEN [misses |-> misses, resolved |-> FALSE]
        ELSE [misses |-> [misses EXCEPT ![key] =
                             ToJSON(Spread(existing,
                                 [resolvedBirthDate |-> birthDate,
                                  resolvedAt |-> ToString(now),
                                  notes |-> Coalesce(notes, Get(existing, "notes"))]))],
              resolved |-> TRUE]

(***************************************************************************)
(* The resolution orchestrator: lookupPersonOptimized of crawl.js.         *)
(***************************************************************************)
\* a classification that knows one reason only
MissReasonNotFound(result) == "not-found"

\* the miss reason of a fetched result that does not qualify
MissReason(result) ==
    IF result.found /\ Falsy(Get(result, "birthDate")) THEN "no-birthdate"
    ELSE IF /\ result.found
            /\ ~Falsy(Get(result, "birthDate"))
            /\ ConfidenceOr(result, 0) < 80
         THEN "low-confidence"
         ELSE "not-found"

\* the synthetic result of a miss-registry hit
KnownMiss(missEntry) ==
    [found |-> FALSE, status |-> <<"Known miss: ", missEntry.reason>>,
     source |-> "misses-registry", missReason |-> missEntry.reason,
     entityType |-> missEntry.entityType, seenCount |-> missEntry.seenCount]

\* the options lookupPersonOptimized passes to addToMissesRegistry
MissOptions(name, result, marketTitle) ==
    LET entityDetection == entityDetected[name]
    IN  [wikipediaUrl |-> Get(result, "wikipediaUrl"),
         wikipediaTitle |-> Undef,
         marketTitle |-> marketTitle,
         entityType |-> IF entityDetection.confidence > 50
                        THEN entityDetection.type ELSE Undef]

\* An operation ends: its observable outcome is recorded.  layers are the
\* layers consulted, in order; remote counts the runs of fetchFromWikipedia;
\* wrote names the stores whose write function was called; fails the store
\* functions that threw.  A resolution that reached the live fetch is noted
\* with its instant.
Return(op, name, result, layers, remote, wrote, fails) ==
    /\ ret' = [op |-> op, name |-> name, result |-> result, layers |-> layers,
               remote |-> remote, wrote |-> wrote, fails |-> fails]
    /\ nops' = nops + 1
    /\ nfails' = nfails + Cardinality(fails)
    /\ fetches' = IF op = "resolve" /\ layers # <<>> /\ layers[Len(layers)] = "fetch"
                  THEN [fetches EXCEPT ![normalizedName[name]] = Append(@, now)]
                  ELSE fetches

Fire(writes) ==
    /\ Cardinality(inflight \cup writes) <= MaxInflight
    /\ inflight' = inflight \cup writes

ResolveStatic(name, celebData) ==
    /\ Return("resolve", name, celebData, <<"static">>, 0, {}, {})
    /\ UNCHANGED <<registry, cache, misses, inflight>>

ResolveRegistry(name, reg, fails) ==
    /\ Return("resolve", name, reg.result, <<"static", "registry">>, 0, {}, fails)
    /\ Fire(reg.fire)
    /\ UNCHANGED <<registry, cache, misses>>

\* a cache hit that returns without promoting the result
ResolveCacheNoPromotion(name, cached, fails) ==
    /\ Return("resolve", name, cached, <<"static", "registry", "cache">>, 0, {}, fails)
    /\ UNCHANGED <<registry, cache, misses, inflight>>

ResolveCache(name, cached, fails) ==
    /\ registry' = IF qualifiesForRegistry(cached)
                   THEN addToRegistry(name, cached, "cache", fails).registry
                   ELSE registry
    /\ Return("resolve", name, cached, <<"static", "registry", "cache">>, 0,
              IF qualifiesForRegistry(cached) THEN {"registry"} ELSE {}, fails)
    /\ UNCHANGED <<cache, misses, inflight>>

ResolveMiss(name, miss, fails) ==
    /\ Return("resolve", name, KnownMiss(miss.entry),
              <<"static", "registry", "cache", "misses">>, 0, {}, fails)
    /\ Fire(miss.fire)
    /\ UNCHANGED <<registry, cache, misses>>

ResolveFetch(name, marketTitle, outs, fails) ==
    LET fetched == wikipediaFetch[outs]
        result == fetched.result
        qualifies == qualifiesForRegistry(result)
    IN  /\ cache' = setCachedResult(name, result, fails)
        /\ registry' = IF qualifies
                       THEN addToRegistry(name, result, "wikipedia", fails).registry
                       ELSE registry
        /\ misses' = IF qualifies THEN misses
                     ELSE addToMissesRegistry(name, MissReason(result),
                                              MissOptions(name, result, marketTitle), fails)
        /\ Return("resolve", name, result,
                  <<"static", "registry", "cache", "misses", "fetch">>, fetched.remote,
                  {"cache", IF qualifies THEN "registry" ELSE "misses"}, fails)
        /\ UNCHANGED inflight

\* the store functions a run of lookupPersonOptimized calls, given the
\* functions that throw
ResolveCalls(name, fails) ==
    IF celebrityData[name] # Nothing THEN {}
    ELSE IF getFromRegistry(name, fails).result # Nothing
    THEN {"getFromRegistry", "updateAccessMetadata"}
    ELSE IF getCachedResult(name, fails) # Nothing
    THEN {"getFromRegistry", "getCachedResult", "addToRegistry"}
    ELSE IF checkMissesRegistry(name, fails).entry # Nothing
    THEN {"getFromRegistry", "getCachedResult", "checkMissesRegistry",
          "updateMissSeenCount"}
    ELSE {"getFromRegistry", "getCachedResult", "checkMissesRegistry",
          "setCachedResult", "addToRegistry", "addToMissesRegistry"}

\* lookupPersonOptimized with the registry consulted before the static table
ResolveRegistryFirst(name, marketTitle, fails) ==
    LET celebData == celebrityData[name]
        reg == getFromRegistry(name, fails)
        cached == getCachedResult(name, fails)
        miss == checkMissesRegistry(name, fails)
    IN  /\ nops < MaxOps
        /\ IF reg.result # Nothing THEN ResolveRegistry(name, reg, fails)
           ELSE IF celebData # Nothing THEN ResolveStatic(name, celebData)
           ELSE IF cached # Nothing THEN ResolveCache(name, cached, fails)
           ELSE IF miss.entry # Nothing THEN ResolveMiss(name, miss, fails)
           ELSE \E outs \in AttemptSeqs : ResolveFetch(name, marketTitle, outs, fails)
        /\ UNCHANGED <<now, deleted, calls, limiterVars>>

\* lookupPersonOptimized(name, log, marketTitle)
Resolve(name, marketTitle, fails) ==
    LET celebData == celebrityData[name]
        reg == getFromRegistry(name, fails)
        cached == getCachedResult(name, fails)
        miss == checkMissesRegistry(name, fails)
    IN  /\ nops < MaxOps
        /\ fails \subseteq ResolveCalls(name, fails)
        /\ IF celebData # Nothing THEN ResolveStatic(name, celebData)
           ELSE IF reg.result # Nothing THEN ResolveRegistry(name, reg, fails)
           ELSE IF cached # Nothing THEN ResolveCache(name, cached, fails)
           ELSE IF miss.entry # Nothing THEN ResolveMiss(name, miss, fails)
           ELSE \E outs \in AttemptSeqs : ResolveFetch(name, marketTitle, outs, fails)
        /\ UNCHANGED <<now, deleted, calls, limiterVars>>

\* the cache-status pass of the crawl handler, for one name: static table,
\* registry, cache; it tells where the name is held
CacheStatus(name, fails) ==
    LET celebData == celebrityData[name]
        reg == getFromRegistry(name, fails)
        cached == getCachedResult(name, fails)
    IN  /\ nops < MaxOps
        /\ IF celebData # Nothing
           THEN /\ fails = {}
                /\ Return("status", name, [cached |-> TRUE, source |-> "celebrity-db"],
                          <<"static">>, 0, {}, {})
                /\ UNCHANGED inflight
           ELSE IF reg.result # Nothing
           THEN /\ fails \subseteq {"updateAccessMetadata"}
                /\ Return("status", name, [cached |-> TRUE, source |-> "registry"],
                          <<"static", "registry">>, 0, {}, fails)
                /\ Fire(reg.fire)
           ELSE /\ fails \subseteq {"getFromRegistry", "getCachedResult"}
                /\ Return("status", name,
                          IF cached # Nothing
                          THEN [cached |-> TRUE, source |-> "blob-cache"]
                          ELSE [cached |-> FALSE],
                          <<"static", "registry", "cache">>, 0, {}, fails)
                /\ UNCHANGED inflight
        /\ UNCHANGED <<now, registry, cache, misses, deleted, calls, limiterVars>>

\* the results a caller of the registry's own interface passes
RegistryInputs ==
    {[found |-> TRUE, birthDate |-> "May 4, 1970", birthDateRaw |-> "1970-05-04",
      confidence |-> 79, status |-> <<"Found">>, source |-> "wikipedia"],
     [found |-> TRUE, birthDate |-> "May 4, 1970", birthDateRaw |-> "1970-05-04",
      confidence |-> 80, status |-> <<"Found">>, source |-> "wikipedia"],
     [found |-> TRUE, birthDate |-> "May 4, 1970", birthDateRaw |-> Null,
      confidence |-> 100, status |-> <<"Found">>, source |-> "wikipedia"],
     [found |-> TRUE, birthDate |-> Null, birthDateRaw |-> "1970-05-04",
      confidence |-> 100, status |-> <<"Found">>, source |-> "wikipedia"],
     [found |-> FALSE, birthDate |-> "May 4, 1970", birthDateRaw |-> "1970-05-04",
      confidence |-> 100, status |-> <<"Found">>, source |-> "wikipedia"],
     [found |-> TRUE, birthDate |-> "May 4, 1970", birthDateRaw |-> "1970-05-04",
      status |-> <<"Found">>, source |-> "wikipedia"]}

\* a direct call of addToRegistry(name, result, originalSource)
AddToRegistry(name, result, originalSource, fails) ==
    LET r == addToRegistry(name, result, originalSource, fails)
    IN  /\ nops < MaxOps
        /\ fails \subseteq (IF qualifiesForRegistry(result) THEN {"addToRegistry"} ELSE {})
        /\ registry' = r.registry
        /\ Return("add", name, [added |-> r.added, input |-> result], <<>>, 0,
                  {"registry"}, fails)
        /\ UNCHANGED <<now, cache, misses, inflight, deleted, calls, limiterVars>>

AddNameVariant(variant, canonicalName, fails) ==
    LET r == addNameVariant(variant, canonicalName, fails)
    IN  /\ nops < MaxOps
        /\ registry' = r.registry
        /\ Return("variant", variant, [added |-> r.added, canonical |-> canonicalName],
                  <<>>, 0, {"registry"}, fails)
        /\ UNCHANGED <<now, cache, misses, inflight, deleted, calls, limiterVars>>

DeleteFromRegistry(name, fails) ==
    LET r == deleteFromRegistry(name, fails)
    IN  /\ nops < MaxOps
        /\ registry' = r.registry
        /\ deleted' = (deleted \/ r.deleted)
        /\ Return("delete", name, [deleted |-> r.deleted], <<>>, 0, {"registry"}, fails)
        /\ UNCHANGED <<now, cache, misses, inflight, calls, limiterVars>>

\* a write that reaches its store and finds the key gone is dropped
LandIfPresent(w) ==
    /\ w \in inflight
    /\ inflight' = inflight \ {w}
    /\ registry' = IF w.store = "registry" /\ registry[w.key] # Nothing
                   THEN [registry EXCEPT ![w.key] = w.value]
                   ELSE registry
    /\ misses' = IF w.store = "misses" /\ misses[w.key] # Nothing
                 THEN [misses EXCEPT ![w.key] = w.value]
                 ELSE misses
    /\ UNCHANGED <<now, cache, ret, nops, nfails, deleted, fetches, calls, limiterVars>>

\* a fire-and-forget write reaches its store
Land(w) ==
    /\ w \in inflight
    /\ inflight' = inflight \ {w}
    /\ registry' = IF w.store = "registry" THEN [registry EXCEPT ![w.key] = w.value]
                   ELSE registry
    /\ misses' = IF w.store = "misses" THEN [misses EXCEPT ![w.key] = w.value]
                 ELSE misses
    /\ UNCHANGED <<now, cache, ret, nops, nfails, deleted, fetches, calls, limiterVars>>

\* time passes
Tick(t) ==
    /\ now < t
    /\ t <= MaxTime
    /\ now' = t
    /\ UNCHANGED <<registry, cache, misses, inflight, ret, nops, nfails, deleted,
                   fetches, calls, limiterVars>>

\* no caller of lookupPersonOptimized passes a market title
MarketTitles == {Null}

(***************************************************************************)
(* Concurrent resolutions: the lookups of one batch run as promises under  *)
(* Promise.all, so the runs of lookupPersonOptimized interleave at their   *)
(* awaits.  One run is at one await; a step takes it to the next.  A store *)
(* read or write is one step; addToRegistry and addToMissesRegistry read   *)
(* the entry in one step and write the entry built over it in another.     *)
(***************************************************************************)
Callers == {"A", "B"}

Idle ==
    [pc |-> "idle", name |-> <<>>, result |-> Nothing, existing |-> Nothing,
     originalSource |-> "wikipedia", fetched |-> FALSE]

CallFrame ==
    UNCHANGED <<now, ret, nops, nfails, deleted, fetches, limiterVars>>

\* lookupPersonOptimized(name) is called: the static table is consulted at
\* once
Begin(c, name) ==
    LET celebData == celebrityData[name]
    IN  /\ calls[c].pc = "idle"
        /\ calls' = [calls EXCEPT ![c] =
                         IF celebData # Nothing
                         THEN [@ EXCEPT !.pc = "done", !.name = name, !.result = celebData]
                         ELSE [@ EXCEPT !.pc = "getFromRegistry", !.name = name]]
        /\ UNCHANGED <<registry, cache, misses, inflight>>
        /\ CallFrame

AwaitGetFromRegistry(c) ==
    LET reg == getFromRegistry(calls[c].name, {})
    IN  /\ calls[c].pc = "getFromRegistry"
        /\ IF reg.result # Nothing
           THEN /\ calls' = [calls EXCEPT ![c].pc = "done", ![c].result = reg.result]
                /\ Fire(reg.fire)
           ELSE /\ calls' = [calls EXCEPT ![c].pc = "getCachedResult"]
                /\ UNCHANGED inflight
        /\ UNCHANGED <<registry, cache, misses>>
        /\ CallFrame

AwaitGetCachedResult(c) ==
    LET cached == getCachedResult(calls[c].name, {})
    IN  /\ calls[c].pc = "getCachedResult"
        /\ calls' = [calls EXCEPT ![c] =
                         IF cached = Nothing
                         THEN [@ EXCEPT !.pc = "checkMissesRegistry"]
                         ELSE [@ EXCEPT !.result = cached, !.originalSource = "cache",
                                        !.pc = IF qualifiesForRegistry(cached)
                                               THEN "addToRegistry" ELSE "done"]]
        /\ UNCHANGED <<registry, cache, misses, inflight>>
        /\ CallFrame

AwaitCheckMissesRegistry(c) ==
    LET miss == checkMissesRegistry(calls[c].name, {})
    IN  /\ calls[c].pc = "checkMissesRegistry"
        /\ IF miss.entry # Nothing
           THEN /\ calls' = [calls EXCEPT ![c].pc = "done",
                                          ![c].result = KnownMiss(miss.entry)]
                /\ Fire(miss.fire)
           ELSE /\ calls' = [calls EXCEPT ![c].pc = "fetchFromWikipediaWithRetry"]
                /\ UNCHANGED inflight
        /\ UNCHANGED <<registry, cache, misses>>
        /\ CallFrame

AwaitFetch(c) ==
    /\ calls[c].pc = "fetchFromWikipediaWithRetry"
    /\ \E outs \in AttemptSeqs :
           calls' = [calls EXCEPT ![c].pc = "setCachedResult",
                                  ![c].result = wikipediaFetch[outs].result,
                                  ![c].fetched = TRUE]
    /\ UNCHANGED <<registry, cache, misses, inflight>>
    /\ CallFrame

AwaitSetCachedResult(c) ==
    /\ calls[c].pc = "setCachedResult"
    /\ cache' = setCachedResult(calls[c].name, calls[c].result, {})
    /\ calls' = [calls EXCEPT ![c].pc = IF qualifiesForRegistry(calls[c].result)
                                        THEN "addToRegistry" ELSE "addToMissesRegistry"]
    /\ UNCHANGED <<registry, misses, inflight>>
    /\ CallFrame

\* store.get of addToRegistry
AwaitRegistryGet(c) ==
    /\ calls[c].pc = "addToRegistry"
    /\ calls' = [calls EXCEPT ![c].pc = "addToRegistry:setJSON",
                              ![c].existing = registry[normalizedName[calls[c].name]]]
    /\ UNCHANGED <<registry, cache, misses, inflight>>
    /\ CallFrame

\* store.setJSON of addToRegistry
AwaitRegistrySet(c) ==
    /\ calls[c].pc = "addToRegistry:setJSON"
    /\ registry' = [registry EXCEPT ![normalizedName[calls[c].name]] =
                        RegistryEntry(calls[c].result, calls[c].originalSource,
                                      calls[c].existing)]
    /\ calls' = [calls EXCEPT ![c].pc = "done"]
    /\ UNCHANGED <<cache, misses, inflight>>
    /\ CallFrame

\* store.get of addToMissesRegistry
AwaitMissesGet(c) ==
    /\ calls[c].pc = "addToMissesRegistry"
    /\ calls' = [calls EXCEPT ![c].pc = "addToMissesRegistry:setJSON",
                              ![c].existing = misses[normalizedName[calls[c].name]]]
    /\ UNCHANGED <<registry, cache, misses, inflight>>
    /\ CallFrame

\* store.setJSON of addToMissesRegistry
AwaitMissesSet(c) ==
    LET call == calls[c]
    IN  /\ call.pc = "addToMissesRegistry:setJSON"
        /\ misses' = [misses EXCEPT ![normalizedName[call.name]] =
                          MissEntry(call.name, MissReason(call.result),
                                    MissOptions(call.name, call.result, Null),
                                    call.existing)]
        /\ calls' = [calls EXCEPT ![c].pc = "done"]
        /\ UNCHANGED <<registry, cache, inflight>>
        /\ CallFrame

(***************************************************************************)
(* The token-bucket rate limiter (rate-limiter.js).  Tokens are counted in *)
(* thousandths, time in milliseconds, so that the refill and the wait time *)
(* are exact.                                                              *)
(***************************************************************************)
\* the options of the limiter under test
maxRequestsPerSecond == 1
maxQueueSize == 2

MaxTasks == 5       \* tasks submitted in one run
MaxClock == 2000    \* the limiter's clock stops here
ClockStep == 500    \* the clock advances in steps of this many milliseconds

\* the constructor, at time t
NewRateLimiter(t) ==
    [tokens |-> maxRequestsPerSecond * 1000, lastRefill |-> t, queue |-> <<>>,
     processing |-> FALSE]

\* a refill without the cap
refillTokensUncapped(L, t) ==
    LET elapsed == t - L.lastRefill
        tokensToAdd == elapsed * maxRequestsPerSecond
    IN  [L EXCEPT !.tokens = @ + tokensToAdd, !.lastRefill = t]

refillTokens(L, t) ==
    LET elapsed == t - L.lastRefill
        tokensToAdd == elapsed * maxRequestsPerSecond
    IN  [L EXCEPT !.tokens = Min(maxRequestsPerSecond * 1000, @ + tokensToAdd),
                  !.lastRefill = t]

tryAcquire(L, t) ==
    LET R == refillTokens(L, t)
    IN  IF R.tokens >= 1000
        THEN [limiter |-> [R EXCEPT !.tokens = @ - 1000], acquired |-> TRUE]
        ELSE [limiter |-> R, acquired |-> FALSE]

\* Math.ceil(a / b) of positive integers
CeilDiv(a, b) == (a + b - 1) \div b

getWaitTime(L, t) ==
    LET R == refillTokens(L, t)
    IN  [limiter |-> R,
         waitTime |-> IF R.tokens >= 1000 THEN 0
                      ELSE CeilDiv(1000 - R.tokens, maxRequestsPerSecond)]

\* a test of execute that counts the running task too
QueueFullCountingRunning(L) ==
    Len(L.queue) + (IF L.processing THEN 1 ELSE 0) >= maxQueueSize

\* the test of execute, off by one
QueueFullOffByOne(L) == Len(L.queue) > maxQueueSize

\* the test at the head of execute
QueueFull(L) == Len(L.queue) >= maxQueueSize

\* the test of processQueue without the processing flag
processQueueReturnsWhenEmpty(L) == Len(L.queue) = 0

\* the test at the head of processQueue
processQueueReturns(L) == L.processing \/ Len(L.queue) = 0

\* One run of the body of processQueue up to its next await.  pc tells where
\* it stops: "sleep" at await this.sleep(waitTime), "fn" at await task.fn(),
\* "done" when the loop is left.
RECURSIVE LoopHead(_, _), LoopAcquire(_, _)
\* a loop that is left without clearing the processing flag
LoopHeadKeepsFlag(L, t) ==
    IF Len(L.queue) = 0
    THEN [limiter |-> L, pc |-> "done", wakeAt |-> 0, task |-> 0]
    ELSE LET w == getWaitTime(L, t)
         IN  IF w.waitTime > 0
             THEN [limiter |-> w.limiter, pc |-> "sleep",
                   wakeAt |-> t + w.waitTime, task |-> 0]
             ELSE LoopAcquire(w.limiter, t)

\* from the test of the while loop
LoopHead(L, t) ==
    IF Len(L.queue) = 0
    THEN [limiter |-> [L EXCEPT !.processing = FALSE], pc |-> "done",
          wakeAt |-> 0, task |-> 0]
    ELSE LET w == getWaitTime(L, t)
         IN  IF w.waitTime > 0
             THEN [limiter |-> w.limiter, pc |-> "sleep",
                   wakeAt |-> t + w.waitTime, task |-> 0]
             ELSE LoopAcquire(w.limiter, t)
\* from the call of tryAcquire
LoopAcquire(L, t) ==
    LET a == tryAcquire(L, t)
    IN  IF a.acquired
        THEN [limiter |-> [a.limiter EXCEPT !.queue = Tail(@)], pc |-> "fn",
              wakeAt |-> 0, task |-> Head(a.limiter.queue)]
        ELSE LoopHead(a.limiter, t)

processQueue(L, t) ==
    IF processQueueReturns(L)
    THEN [limiter |-> L, pc |-> "done", wakeAt |-> 0, task |-> 0]
    ELSE LoopHead([L EXCEPT !.processing = TRUE], t)

\* the run 'id' of processQueue stopped as r says (others: the other runs)
Suspend(id, r, others) ==
    /\ limiter' = r.limiter
    /\ loops' = IF r.pc = "done" THEN others
                ELSE others \cup {[id |-> id, pc |-> r.pc, wakeAt |-> r.wakeAt,
                                   task |-> r.task]}
    /\ started' = IF r.pc = "fn" THEN Append(started, r.task) ELSE started

\* execute(fn): the task gets the next id
Execute ==
    LET id == nextId
        pushed == [limiter EXCEPT !.queue = Append(@, id)]
    IN  /\ nextId <= MaxTasks
        /\ nextId' = nextId + 1
        /\ IF QueueFull(limiter)
           THEN /\ settled' = [settled EXCEPT ![id] = "queue-full"]
                /\ UNCHANGED <<limiter, loops, started>>
           ELSE /\ settled' = [settled EXCEPT ![id] = "pending"]
                /\ Suspend(id, processQueue(pushed, clock), loops)
        /\ UNCHANGED <<clock, finished, resolverVars>>

\* the timer of sleep fires, not before its time
Wake(l) ==
    /\ l \in loops
    /\ l.pc = "sleep"
    /\ clock >= l.wakeAt
    /\ Suspend(l.id, LoopAcquire(limiter, clock), loops \ {l})
    /\ UNCHANGED <<clock, nextId, settled, finished, resolverVars>>

\* the promise of task.fn() settles: fulfilled (ok) or rejected
Complete(l, ok) ==
    /\ l \in loops
    /\ l.pc = "fn"
    /\ settled' = [settled EXCEPT ![l.task] = IF ok THEN "resolved" ELSE "rejected"]
    /\ finished' = Append(finished, l.task)
    /\ Suspend(l.id, LoopHead(limiter, clock), loops \ {l})
    /\ UNCHANGED <<clock, nextId, resolverVars>>

\* the limiter's clock advances
Advance ==
    /\ clock + ClockStep <= MaxClock
    /\ clock' = clock + ClockStep
    /\ UNCHANGED <<limiter, loops, nextId, settled, started, finished, resolverVars>>

LimiterNew ==
    /\ limiter = NewRateLimiter(0)
    /\ loops = {}
    /\ clock = 0
    /\ nextId = 1
    /\ settled = [i \in 1..MaxTasks |-> "none"]
    /\ started = <<>>
    /\ finished = <<>>

Init ==
    /\ now = 0
    /\ registry = [k \in Keys |-> Nothing]
    /\ cache = [k \in Keys |-> Nothing]
    /\ misses = [k \in Keys |-> Nothing]
    /\ inflight = {}
    /\ ret = [op |-> "none", name |-> <<>>, result |-> Nothing, layers |-> <<>>,
              remote |-> 0, wrote |-> {}, fails |-> {}]
    /\ nops = 0
    /\ nfails = 0
    /\ deleted = FALSE
    /\ fetches = [k \in Keys |-> <<>>]
    /\ calls = [c \in Callers |-> Idle]
    /\ LimiterNew

\* the crawler: resolutions and cache-status passes, over stores that can fail
Next ==
    \/ \E name \in Names, marketTitle \in MarketTitles :
          \E fails \in FailSets({"getFromRegistry", "updateAccessMetadata",
                                 "getCachedResult", "addToRegistry", "checkMissesRegistry",
                                 "updateMissSeenCount", "setCachedResult",
                                 "addToMissesRegistry"}) :
              Resolve(name, marketTitle, fails)
    \/ \E name \in Names :
          \E fails \in FailSets({"getFromRegistry", "updateAccessMetadata",
                                 "getCachedResult"}) :
              CacheStatus(name, fails)
    \/ \E w \in inflight : Land(w)
    \/ \E t \in Instants : Tick(t)

Spec == Init /\ [][Next]_vars

\* the crawler next to direct callers of the registry's interface; only the
\* registry's own store calls fail
NextRegistry ==
    \/ \E name \in Names, marketTitle \in MarketTitles : Resolve(name, marketTitle, {})
    \/ \E name \in Names, result \in RegistryInputs :
          \E fails \in FailSets({"addToRegistry"}) :
              AddToRegistry(name, result, "wikipedia", fails)
    \/ \E variant \in Names, canonicalName \in Names :
          \E fails \in FailSets({"addNameVariant"}) :
              AddNameVariant(variant, canonicalName, fails)
    \/ \E name \in Names : \E fails \in FailSets({"deleteFromRegistry"}) :
          DeleteFromRegistry(name, fails)
    \/ \E w \in inflight : Land(w)
    \/ \E t \in Instants : Tick(t)

SpecRegistry == Init /\ [][NextRegistry]_vars

\* the rate limiter alone
NextRL ==
    \/ Execute
    \/ \E l \in loops : Wake(l)
    \/ \E l \in loops, ok \in BOOLEAN : Complete(l, ok)
    \/ Advance

SpecRL == Init /\ [][NextRL]_vars

\* time passes while a timer of sleep is pending, however late it is
Elapse ==
    /\ clock + ClockStep > MaxClock
    /\ \E l \in loops : l.pc = "sleep" /\ l.wakeAt > clock
    /\ clock' = clock + ClockStep
    /\ UNCHANGED <<limiter, loops, nextId, settled, started, finished, resolverVars>>

\* the rate limiter under the event loop: a timer that is due fires, a task
\* that runs terminates, and time advances
NextRLFair ==
    \/ Execute
    \/ \E l \in loops : Wake(l)
    \/ \E l \in loops, ok \in BOOLEAN : Complete(l, ok)
    \/ Advance
    \/ Elapse

SpecRLFair ==
    /\ Init
    /\ [][NextRLFair]_vars
    /\ WF_vars(\E l \in loops : Wake(l))
    /\ WF_vars(\E l \in loops, ok \in BOOLEAN : Complete(l, ok))
    /\ WF_vars(Advance \/ Elapse)

\* resolutions within one day in which any of the store functions called can
\* throw, in any combination
MaxFailureOps == 2

NextFailures ==
    \/ /\ nops < MaxFailureOps
       /\ \E name \in Names, marketTitle \in MarketTitles :
             \E fails \in SUBSET (StoreCalls \ {"addNameVariant", "deleteFromRegistry"}) :
                 Resolve(name, marketTitle, fails)
    \/ \E w \in inflight : Land(w)

SpecFailures == Init /\ [][NextFailures]_vars

\* the lookups of one batch, interleaved
NextConcurrent ==
    \/ \E c \in Callers, name \in Names : Begin(c, name)
    \/ \E c \in Callers : AwaitGetFromRegistry(c)
    \/ \E c \in Callers : AwaitGetCachedResult(c)
    \/ \E c \in Callers : AwaitCheckMissesRegistry(c)
    \/ \E c \in Callers : AwaitFetch(c)
    \/ \E c \in Callers : AwaitSetCachedResult(c)
    \/ \E c \in Callers : AwaitRegistryGet(c)
    \/ \E c \in Callers : AwaitRegistrySet(c)
    \/ \E c \in Callers : AwaitMissesGet(c)
    \/ \E c \in Callers : AwaitMissesSet(c)
    \/ \E w \in inflight : Land(w)

SpecConcurrent == Init /\ [][NextConcurrent]_vars

\* the store call of getCachedResult throws: the catch block returns null
AwaitGetCachedResultThrows(c) ==
    /\ calls[c].pc = "getCachedResult"
    /\ nfails < MaxFail
    /\ getCachedResult(calls[c].name, {"getCachedResult"}) = Nothing
    /\ calls' = [calls EXCEPT ![c].pc = "checkMissesRegistry"]
    /\ nfails' = nfails + 1
    /\ UNCHANGED <<now, registry, cache, misses, inflight, ret, nops, deleted, fetches,
                   limiterVars>>

\* the store call of setCachedResult throws: the catch block returns false
AwaitSetCachedResultThrows(c) ==
    /\ calls[c].pc = "setCachedResult"
    /\ nfails < MaxFail
    /\ cache' = setCachedResult(calls[c].name, calls[c].result, {"setCachedResult"})
    /\ calls' = [calls EXCEPT ![c].pc = IF qualifiesForRegistry(calls[c].result)
                                        THEN "addToRegistry" ELSE "addToMissesRegistry"]
    /\ nfails' = nfails + 1
    /\ UNCHANGED <<now, registry, misses, inflight, ret, nops, deleted, fetches,
                   limiterVars>>

\* two resolutions, overlapping or one after the other, days apart or not,
\* over a cache whose store calls can throw
NextShadow ==
    \/ \E c \in Callers, name \in Names : Begin(c, name)
    \/ \E c \in Callers : AwaitGetFromRegistry(c)
    \/ \E c \in Callers : AwaitGetCachedResult(c)
    \/ \E c \in Callers : AwaitGetCachedResultThrows(c)
    \/ \E c \in Callers : AwaitCheckMissesRegistry(c)
    \/ \E c \in Callers : AwaitFetch(c)
    \/ \E c \in Callers : AwaitSetCachedResult(c)
    \/ \E c \in Callers : AwaitSetCachedResultThrows(c)
    \/ \E c \in Callers : AwaitRegistryGet(c)
    \/ \E c \in Callers : AwaitRegistrySet(c)
    \/ \E c \in Callers : AwaitMissesGet(c)
    \/ \E c \in Callers : AwaitMissesSet(c)
    \/ \E w \in inflight : Land(w)
    \/ \E t \in {MISS_COOLDOWN_DAYS - 1, MISS_COOLDOWN_DAYS} : Tick(t)

SpecShadow == Init /\ [][NextShadow]_vars

(***************************************************************************)
(* withRetry alone, over the rate-limited fetch: the initial states hold   *)
(* the call, the answers of the environment to the invocations of fn and   *)
(* the options; the one action runs the call.  The answers go on past the  *)
(* last iteration, so that an invocation too many would be seen.           *)
(***************************************************************************)
RetryMaxRetries == 2

\* what fetch gives: a response with its status, or a network failure,
\* which rejects with a TypeError
Response(status) == [ok |-> status \in 200..299, status |-> status]
NetworkError == [error |-> MsgNetwork]
IsNetworkError(x) == "error" \in DOMAIN x

\* fetchFromWikipedia over the answers of the knowledge source to the search
\* call and to the content call; 'results' says whether the search found a
\* page
fetchFromWikipedia(http) ==
    IF IsNetworkError(http.search) THEN Threw(http.search.error)
    ELSE IF ~http.search.ok THEN Threw(MsgSearchFailed(http.search.status))
    ELSE IF ~http.results THEN Returned(PageNotFound)
    ELSE IF IsNetworkError(http.content) THEN Threw(http.content.error)
    ELSE IF ~http.content.ok THEN Threw(MsgContentFailed)
    ELSE Returned(PageWithoutDate)

\* withWikipediaRateLimit(() => fetchFromWikipedia(name)): a full queue
\* rejects the task without running it
withWikipediaRateLimit(a) ==
    IF a.queueFull THEN Rejected(MsgQueueFull(100)) ELSE fetchFromWikipedia(a)

\* one attempt: the state of the limiter's queue and the answers of the
\* knowledge source
RetryAttempts ==
    {[queueFull |-> TRUE, search |-> Response(200), results |-> FALSE,
      content |-> Response(200)]}
    \cup {[queueFull |-> FALSE, search |-> s, results |-> FALSE,
           content |-> Response(200)] :
             s \in {NetworkError, Response(500), Response(504), Response(404),
                    Response(200)}}
    \cup {[queueFull |-> FALSE, search |-> Response(200), results |-> TRUE,
           content |-> c] : c \in {Response(404), Response(200)}}

RetryOptions ==
    {[maxRetries |-> m, baseDelayMs |-> 500, maxDelayMs |-> 3000, policy |-> p] :
        m \in 0..RetryMaxRetries, p \in {"default", "wikipedia"}}

InitRetry ==
    /\ now = 0
    /\ registry = [k \in Keys |-> Nothing]
    /\ cache = [k \in Keys |-> Nothing]
    /\ misses = [k \in Keys |-> Nothing]
    /\ inflight = {}
    /\ \E o \in RetryOptions : \E n \in 1..(o.maxRetries + 2) :
           \E attempts \in [1..n -> RetryAttempts] :
               LET outs == [i \in 1..n |-> withWikipediaRateLimit(attempts[i])]
               IN  /\ ~withRetry(outs, o).pending
                   /\ ret = [op |-> "call", attempts |-> attempts, outs |-> outs,
                             options |-> o]
    /\ nops = 0
    /\ nfails = 0
    /\ deleted = FALSE
    /\ fetches = [k \in Keys |-> <<>>]
    /\ calls = [c \in Callers |-> Idle]
    /\ LimiterNew

WithRetry ==
    /\ ret.op = "call"
    /\ ret' = [op |-> "withRetry", attempts |-> ret.attempts, outs |-> ret.outs,
               options |-> ret.options, result |-> withRetry(ret.outs, ret.options)]
    /\ nops' = nops + 1
    /\ UNCHANGED <<now, registry, cache, misses, inflight, nfails, deleted, fetches,
                   calls, limiterVars>>

NextRetry == WithRetry

SpecRetry == InitRetry /\ [][NextRetry]_vars

(***************************************************************************)
(* The miss registry's own interface, called directly.                     *)
(***************************************************************************)
MaxAdds == 5

SampleTitles == {Null, "A", "B", "C", "D"}

\* addToMissesRegistry(name, reason, { marketTitle }); the titles passed so
\* far are kept with the outcome
AddToMissesRegistry(name, reason, marketTitle) ==
    /\ misses' = addToMissesRegistry(name, reason,
                      [wikipediaUrl |-> Undef, wikipediaTitle |-> Undef,
                       marketTitle |-> marketTitle, entityType |-> Undef], {})
    /\ ret' = [op |-> "addMiss", name |-> name,
               titles |-> Append(IF ret.op = "addMiss" /\ ret.name = name
                                 THEN ret.titles ELSE <<>>, marketTitle)]
    /\ nops' = nops + 1
    /\ UNCHANGED <<now, registry, cache, inflight, nfails, deleted, fetches, calls,
                   limiterVars>>

\* a direct call of resolveMiss(name, birthDate)
ResolveMissManually(name, birthDate) ==
    LET r == resolveMiss(name, birthDate, Undef, {})
    IN  /\ misses' = r.misses
        /\ ret' = [op |-> "resolveMiss", name |-> name, birthDate |-> birthDate,
                   resolved |-> r.resolved]
        /\ nops' = nops + 1
        /\ UNCHANGED <<now, registry, cache, inflight, nfails, deleted, fetches, calls,
                       limiterVars>>

\* a direct call of checkMissesRegistry(name)
CheckMissesRegistry(name) ==
    LET miss == checkMissesRegistry(name, {})
    IN  /\ ret' = [op |-> "checkMiss", name |-> name, entry |-> miss.entry]
        /\ Fire(miss.fire)
        /\ nops' = nops + 1
        /\ UNCHANGED <<now, registry, cache, misses, nfails, deleted, fetches, calls,
                       limiterVars>>

\* repeated adds for one name, a day passing or not between them
NextMarkets ==
    \/ /\ nops < MaxAdds
       /\ \E marketTitle \in SampleTitles :
             AddToMissesRegistry(NameOfState, "not-found", marketTitle)
    \/ \E t \in {1} : Tick(t)

SpecMarkets == Init /\ [][NextMarkets]_vars

\* adds, manual resolutions and cooldown checks in sequence: an operation
\* begins when the writes of the one before have reached the store
NextMisses ==
    \/ /\ nops < MaxOps /\ inflight = {}
       /\ \E name \in Names, marketTitle \in {Null, "A"} :
             AddToMissesRegistry(name, "no-birthdate", marketTitle)
    \/ /\ nops < MaxOps /\ inflight = {}
       /\ \E name \in Names : ResolveMissManually(name, "June 1, 1980")
    \/ /\ nops < MaxOps /\ inflight = {}
       /\ \E name \in Names : CheckMissesRegistry(name)
    \/ \E w \in inflight : Land(w)
    \/ \E t \in Instants : Tick(t)

SpecMisses == Init /\ [][NextMisses]_vars

\* the misses store after the call and the value returned
deleteMiss(name, fails) ==
    IF "deleteMiss" \in fails THEN [misses |-> misses, deleted |-> FALSE]
    ELSE [misses |-> [misses EXCEPT ![normalizedName[name]] = Nothing],
          deleted |-> TRUE]

\* a direct call of deleteMiss(name)
DeleteMiss(name, fails) ==
    LET r == deleteMiss(name, fails)
    IN  /\ nfails + Cardinality(fails) <= MaxFail
        /\ misses' = r.misses
        /\ ret' = [op |-> "deleteMiss", name |-> name, deleted |-> r.deleted]
        /\ nops' = nops + 1
        /\ nfails' = nfails + Cardinality(fails)
        /\ UNCHANGED <<now, registry, cache, inflight, deleted, fetches, calls,
                       limiterVars>>

MaxDeleteOps == 6

\* corrections next to reads: an entry is added, read, and deleted while
\* the write the read issued is still on its way; first in the registry,
\* then in the miss registry
NextDeletes ==
    \/ /\ ~deleted
       /\ \E result \in RegistryInputs : AddToRegistry(NameOfState, result, "wikipedia", {})
    \/ CacheStatus(NameOfState, {})
    \/ DeleteFromRegistry(NameOfState, {})
    \/ /\ nops < MaxDeleteOps /\ ret.op # "deleteMiss"
       /\ AddToMissesRegistry(NameOfState, "not-found", Null)
    \/ /\ nops < MaxDeleteOps
       /\ CheckMissesRegistry(NameOfState)
    \/ /\ nops < MaxDeleteOps
       /\ \E fails \in SUBSET {"deleteMiss"} : DeleteMiss(NameOfState, fails)
    \/ \E w \in inflight : Land(w)
    \/ \E t \in {1} : Tick(t)

SpecDeletes == Init /\ [][NextDeletes]_vars

MaxRaceOps == 5

\* adds, manual resolutions and cooldown checks of one name that do not
\* wait for the seenCount write of a check to reach the store
NextLostUpdates ==
    \/ /\ nops < MaxRaceOps
       /\ AddToMissesRegistry(NameOfState, "no-birthdate", Null)
    \/ /\ nops < MaxRaceOps
       /\ ResolveMissManually(NameOfState, "June 1, 1980")
    \/ /\ nops < MaxRaceOps
       /\ CheckMissesRegistry(NameOfState)
    \/ \E w \in inflight : Land(w)
    \/ \E t \in {1, MISS_COOLDOWN_DAYS} : Tick(t)

SpecLostUpdates == Init /\ [][NextLostUpdates]_vars

(***************************************************************************)
(* The pure helpers of utils.js, each run once on inputs the initial       *)
(* state holds.                                                            *)
(***************************************************************************)
\* the state at start, but for the call that is about to run
InitButCall ==
    /\ now = 0
    /\ registry = [k \in Keys |-> Nothing]
    /\ cache = [k \in Keys |-> Nothing]
    /\ misses = [k \in Keys |-> Nothing]
    /\ inflight = {}
    /\ nops = 0
    /\ nfails = 0
    /\ deleted = FALSE
    /\ fetches = [k \in Keys |-> <<>>]
    /\ calls = [c \in Callers |-> Idle]
    /\ LimiterNew

\* the call returns: only its outcome is new
CallReturns ==
    /\ nops' = nops + 1
    /\ UNCHANGED <<now, registry, cache, misses, inflight, nfails, deleted, fetches,
                   calls, limiterVars>>

MaxNames == 5

\* names.filter(n => cachedNames.has(normalizeName(n))).length
CachedCount(names, cachedNames) ==
    Cardinality({i \in 1..Len(names) : normalizedName[names[i]] \in cachedNames})

\* cachedCount / names.length >= num / den; the ratio of an empty list is
\* NaN, which compares false
RatioAtLeast(cachedCount, length, num, den) ==
    length # 0 /\ cachedCount * den >= num * length

\* a batch size that doubles the base whatever the maximum
calculateBatchSizeUncapped(names, cachedNames, baseBatchSize, maxBatchSize) ==
    LET cachedCount == CachedCount(names, cachedNames)
    IN  IF RatioAtLeast(cachedCount, Len(names), 8, 10) THEN maxBatchSize
        ELSE IF RatioAtLeast(cachedCount, Len(names), 5, 10) THEN baseBatchSize * 2
        ELSE baseBatchSize

calculateBatchSize(names, cachedNames, baseBatchSize, maxBatchSize) ==
    LET cachedCount == CachedCount(names, cachedNames)
    IN  IF RatioAtLeast(cachedCount, Len(names), 8, 10) THEN maxBatchSize
        ELSE IF RatioAtLeast(cachedCount, Len(names), 5, 10)
             THEN Min(baseBatchSize * 2, maxBatchSize)
        ELSE baseBatchSize

\* (baseBatchSize, maxBatchSize): the defaults, and a base over half the
\* maximum
BatchSizes == {<<5, 15>>, <<10, 15>>}

InitBatch ==
    /\ InitButCall
    /\ \E n \in 0..MaxNames : \E names \in [1..n -> Names] :
           \E cachedNames \in SUBSET Keys, sizes \in BatchSizes :
               ret = [op |-> "call", names |-> names, cachedNames |-> cachedNames,
                      baseBatchSize |-> sizes[1], maxBatchSize |-> sizes[2]]

CalculateBatchSize ==
    /\ ret.op = "call"
    /\ ret' = [ret EXCEPT !.op = "calculateBatchSize"] @@
              [size |-> calculateBatchSize(ret.names, ret.cachedNames,
                                           ret.baseBatchSize, ret.maxBatchSize)]
    /\ CallReturns

NextBatch == CalculateBatchSize

SpecBatch == InitBatch /\ [][NextBatch]_vars

\* Math.round(num / den) of a quotient that is not negative (a half rounds
\* up)
RoundDiv(num, den) == (2 * num + den) \div (2 * den)

Max(a, b) == IF a >= b THEN a ELSE b

\* row i of the table dp, from row i - 1: row[j + 1] is dp[i][j]
RECURSIVE LevenshteinRow(_, _, _, _)
LevenshteinRow(prev, c, s2, row) ==
    LET j == Len(row)
    IN  IF j > Len(s2) THEN row
        ELSE LevenshteinRow(prev, c, s2,
                 Append(row, IF c = s2[j] THEN prev[j]
                             ELSE 1 + Min(prev[j + 1], Min(row[j], prev[j]))))

RECURSIVE LevenshteinRows(_, _, _, _)
LevenshteinRows(s1, s2, i, prev) ==
    IF i > Len(s1) THEN prev
    ELSE LevenshteinRows(s1, s2, i + 1, LevenshteinRow(prev, s1[i], s2, <<i>>))

levenshteinDistance(s1, s2) ==
    LevenshteinRows(s1, s2, 1, [j \in 1..(Len(s2) + 1) |-> j - 1])[Len(s2) + 1]

\* new Set(s.split(/\s+/))
Words(s) == {Split(s)[i] : i \in 1..Len(Split(s))}

nameSimilarity(name1, name2) ==
    LET n1 == normalizeName(name1)
        n2 == normalizeName(name2)
        shorter == IF Len(n1) < Len(n2) THEN n1 ELSE n2
        longer == IF Len(n1) >= Len(n2) THEN n1 ELSE n2
        intersection == Words(n1) \cap Words(n2)
        union == Words(n1) \cup Words(n2)
        maxLen == Max(Len(n1), Len(n2))
    IN  IF n1 = n2 THEN 100
        ELSE IF Includes(n1, n2) \/ Includes(n2, n1)
             THEN RoundDiv(Len(shorter) * 90, Len(longer))
        ELSE IF Cardinality(intersection) > 0
             THEN RoundDiv(Cardinality(intersection) * 80, Cardinality(union))
        ELSE IF Len(n1) < 20 /\ Len(n2) < 20
             THEN Max(0, RoundDiv((maxLen - levenshteinDistance(n1, n2)) * 70, maxLen))
        ELSE 0

\* the index in peopleList of the first person similar enough, 0 for null
findSimilarPerson(name, peopleList, threshold) ==
    LET normalized == normalizeName(name)
        similar == {i \in 1..Len(peopleList) :
                       nameSimilarity(normalized, peopleList[i].nameKey) >= threshold}
    IN  IF similar = {} THEN 0
        ELSE CHOOSE i \in similar : \A k \in similar : i <= k

\* a merge that keeps the markets of the entry only
RECURSIVE deduplicatePeopleDropping(_, _, _)
deduplicatePeopleDropping(peopleList, threshold, deduped) ==
    IF peopleList = <<>> THEN deduped
    ELSE LET person == Head(peopleList)
             match == findSimilarPerson(person.name, deduped, threshold)
             renamed == IF Len(person.name) > Len(deduped[match].name)
                        THEN [deduped[match] EXCEPT
                                 !.name = person.name,
                                 !.nameKey = normalizeName(person.name)]
                        ELSE deduped[match]
         IN  deduplicatePeopleDropping(Tail(peopleList), threshold,
                 IF match # 0
                 THEN [deduped EXCEPT ![match] = renamed]
                 ELSE Append(deduped, [name |-> person.name,
                                       nameKey |-> normalizeName(person.name),
                                       markets |-> person.markets]))

\* the loop of deduplicatePeople over what is left of peopleList
RECURSIVE deduplicatePeople(_, _, _)
deduplicatePeople(peopleList, threshold, deduped) ==
    IF peopleList = <<>> THEN deduped
    ELSE LET person == Head(peopleList)
             match == findSimilarPerson(person.name, deduped, threshold)
             renamed == IF Len(person.name) > Len(deduped[match].name)
                        THEN [deduped[match] EXCEPT
                                 !.name = person.name,
                                 !.nameKey = normalizeName(person.name)]
                        ELSE deduped[match]
         IN  deduplicatePeople(Tail(peopleList), threshold,
                 IF match # 0
                 THEN [deduped EXCEPT ![match] =
                          [renamed EXCEPT !.markets = renamed.markets \o person.markets]]
                 ELSE Append(deduped, [name |-> person.name,
                                       nameKey |-> normalizeName(person.name),
                                       markets |-> person.markets]))

MaxPeople == 3

\* display names: one name, the same with other case and spacing, longer
\* and shorter names that contain it, its words in the other order, and a
\* name unlike all of them
PersonNames ==
    { <<"A", "l", " ", "B", "o">>,
      <<"a", "l", " ", " ", "b", "o">>,
      <<"A", "l", " ", "B", "o", "b">>,
      <<"A", "l", " ", "B", "o", "b", "b">>,
      <<"A", "l", " ", "B">>,
      <<"B", "o", " ", "A", "l">>,
      <<"C", "y">> }

\* the market lists of a person
MarketLists == {<<"m1">>, <<"m2", "m3">>}

\* the default threshold, and the one crawl.js passes
Thresholds == {70, 75}

InitPeople ==
    /\ InitButCall
    /\ \E n \in 0..MaxPeople :
           \E names \in [1..n -> PersonNames], markets \in [1..n -> MarketLists] :
               \E threshold \in Thresholds :
                   ret = [op |-> "call",
                          peopleList |-> [i \in 1..n |->
                              [name |-> names[i], nameKey |-> normalizeName(names[i]),
                               markets |-> markets[i]]],
                          threshold |-> threshold]

DeduplicatePeople ==
    /\ ret.op = "call"
    /\ ret' = [ret EXCEPT !.op = "deduplicatePeople"] @@
              [deduped |-> deduplicatePeople(ret.peopleList, ret.threshold, <<>>)]
    /\ CallReturns

NextPeople == DeduplicatePeople

SpecPeople == InitPeople /\ [][NextPeople]_vars

(***************************************************************************)
(* The live fetch on each lookup path of the program: the crawl handler    *)
(* (crawl.js), the background crawl (crawl-background.js) and the single   *)
(* lookup endpoint (lookup-wikipedia.js, which calls the knowledge source  *)
(* once, with no retry loop).                                              *)
(***************************************************************************)
LookupPaths ==
    {[path |-> "crawl", limited |-> TRUE, options |-> WikiRetryOptions],
     [path |-> "crawl-background", limited |-> FALSE,
      options |-> [maxRetries |-> 3, baseDelayMs |-> 1000, maxDelayMs |-> 10000,
                   policy |-> "default"]],
     [path |-> "lookup-wikipedia", limited |-> FALSE,
      options |-> [maxRetries |-> 0, baseDelayMs |-> 0, maxDelayMs |-> 0,
                   policy |-> "default"]]}

\* the requests one run of fetchFromWikipedia (lookupPerson) issues
fetchRequests(http) ==
    IF IsNetworkError(http.search) \/ ~http.search.ok \/ ~http.results
    THEN <<"search">>
    ELSE <<"search", "content">>

RECURSIVE RequestsOf(_, _, _, _)
RequestsOf(p, attempts, outs, n) ==
    IF n = 0 THEN <<>>
    ELSE RequestsOf(p, attempts, outs, n - 1)
         \o (IF outs[n].remote
             THEN [i \in 1..Len(fetchRequests(attempts[n])) |->
                      [call |-> fetchRequests(attempts[n])[i], attempt |-> n,
                       limited |-> p.limited]]
             ELSE <<>>)

\* the live fetch of path p over the answers of the environment; the
\* requests it issued are recorded, each with whether a task of the limiter
\* issued it
LiveFetch(p, attempts) ==
    LET outs == [i \in 1..Len(attempts) |->
                    IF p.limited THEN withWikipediaRateLimit(attempts[i])
                    ELSE fetchFromWikipedia(attempts[i])]
        r == withRetry(outs, p.options)
    IN  /\ ret.op = "none"
        /\ p.limited \/ \A i \in 1..Len(attempts) : ~attempts[i].queueFull
        /\ ~r.pending
        /\ r.calls = Len(attempts)
        /\ ret' = [op |-> "lookup", path |-> p.path, attempts |-> attempts,
                   calls |-> r.calls,
                   requests |-> RequestsOf(p, attempts, outs, r.calls)]
        /\ nops' = nops + 1
        /\ UNCHANGED <<now, registry, cache, misses, inflight, nfails, deleted, fetches,
                       calls, limiterVars>>

NextPaths ==
    \E p \in LookupPaths :
        \E attempts \in UNION {[1..n -> RetryAttempts] : n \in 1..(p.options.maxRetries + 1)} :
            LiveFetch(p, attempts)

SpecPaths == Init /\ [][NextPaths]_vars

(***************************************************************************)
(* Properties.  A step is a run of operation op when it counts one more    *)
(* operation and records op; the formulas read the stores before the step  *)
(* (unprimed) and what the operation returned (ret').                      *)
(***************************************************************************)
Ran(op) == nops' = nops + 1 /\ ret'.op = op
Last(seq) == seq[Len(seq)]
IsPrefix(a, b) == Len(a) <= Len(b) /\ SubSeq(b, 1, Len(a)) = a
LayerOrder == <<"static", "registry", "cache", "misses", "fetch">>

\* the stores hold an entry of the key that has not expired
CacheValid(key) ==
    cache[key] # Nothing /\ now - cache[key].cachedAt < CACHE_TTL_DAYS
MissInCooldown(key) ==
    misses[key] # Nothing /\ now - misses[key].lastSeenAt < MISS_COOLDOWN_DAYS

\* the place in the layer order of the first layer that holds the name
FirstHit(name) ==
    IF celebrityData[name] # Nothing THEN 1
    ELSE IF registry[normalizedName[name]] # Nothing THEN 2
    ELSE IF CacheValid(normalizedName[name]) THEN 3
    ELSE IF MissInCooldown(normalizedName[name]) THEN 4
    ELSE 5

\* C1: a resolution consults static table, registry, cache, miss registry
\* and live fetch in this order and stops at the first layer that holds the
\* name: the layers consulted are the order up to that layer, its result is
\* returned, no layer below it is read or written, and no remote call is
\* made unless no layer holds the name.  A name in both the static table and
\* the registry gets the static table's result with zero remote calls.
C1_LayerOrder ==
    [][Ran("resolve") =>
          LET name == ret'.name
              n == FirstHit(name)
          IN  /\ ret'.layers = SubSeq(LayerOrder, 1, n)
              /\ n < 5 => ret'.remote = 0
              /\ n = 1 => /\ ret'.result = celebrityData[name]
                          /\ ret'.result.source = "celebrity-db"
                          /\ UNCHANGED <<registry, cache, misses, inflight>>
              /\ n = 2 => /\ ret'.result.source = "registry"
                          /\ ret'.result.birthDate = registry[normalizedName[name]].birthDate
                          /\ UNCHANGED <<registry, cache, misses>>
                          /\ \A w \in inflight' \ inflight : w.store = "registry"
              /\ n = 3 => /\ ret'.result.source = "cache"
                          /\ UNCHANGED <<cache, misses, inflight>>
              /\ n = 4 => /\ ret'.result.source = "misses-registry"
                          /\ UNCHANGED <<registry, cache, misses>>
                          /\ \A w \in inflight' \ inflight : w.store = "misses"]_vars

\* a name of the static table that the registry holds too has been resolved
C1_Witness ==
    /\ ret.op = "resolve"
    /\ celebrityData[ret.name] # Nothing
    /\ registry[normalizedName[ret.name]] # Nothing
    /\ ret.result = celebrityData[ret.name]
    /\ ret.layers = <<"static">>
    /\ ret.remote = 0

\* C2: when the live fetch fails after the retry policy gives up, the
\* resolution returns a found:false error result that is written to the
\* cache and leaves the miss registry's entry of the name as it was.
C2_ErrorNotInMissRegistry ==
    [][(Ran("resolve") /\ Last(ret'.layers) = "fetch"
            /\ ret'.result.source = "wikipedia-error") =>
          LET key == normalizedName[ret'.name]
          IN  /\ ~ret'.result.found
              /\ "setCachedResult" \notin ret'.fails =>
                     /\ cache'[key] # Nothing
                     /\ cache'[key].cachedAt = now
                     /\ cache'[key].source = "wikipedia-error"
              /\ misses'[key] = misses[key]]_vars

\* C3: after a live fetch that returned a page result, the registry is
\* written and the miss registry left alone if the result qualifies (found,
\* birth date present, confidence >= 80); otherwise the registry is left
\* alone and the miss registry is written with reason no-birthdate for a
\* page without a date, low-confidence for a date below 80, and not-found in
\* every other case.  A write lands unless its store call throws.
C3_OneStoreWritten ==
    [][(Ran("resolve") /\ Last(ret'.layers) = "fetch"
            /\ ret'.result.source = "wikipedia") =>
          LET r == ret'.result
              key == normalizedName[ret'.name]
              hasDate == ~IsNullish(Get(r, "birthDate"))
              reason == IF r.found /\ ~hasDate THEN "no-birthdate"
                        ELSE IF r.found /\ hasDate /\ ConfidenceOr(r, 0) < 80
                        THEN "low-confidence"
                        ELSE "not-found"
          IN  IF r.found /\ hasDate /\ ConfidenceOr(r, 0) >= 80
              THEN /\ misses' = misses
                   /\ ret'.wrote = {"cache", "registry"}
                   /\ "addToRegistry" \notin ret'.fails =>
                          /\ registry'[key] # Nothing
                          /\ registry'[key].birthDateRaw = r.birthDateRaw
                          /\ registry'[key].lastAccessedAt = now
              ELSE /\ registry' = registry
                   /\ ret'.wrote = {"cache", "misses"}
                   /\ "addToMissesRegistry" \notin ret'.fails =>
                          /\ misses'[key] # Nothing
                          /\ misses'[key].reason = reason
                          /\ misses'[key].lastSeenAt = now]_vars

\* a dated page below the threshold has been fetched and written to the
\* miss registry as low-confidence
C3_Witness ==
    /\ ret.op = "resolve"
    /\ Last(ret.layers) = "fetch"
    /\ ret.result.source = "wikipedia"
    /\ ret.result.found
    /\ ret.result.confidence = 60
    /\ ret.fails = {}
    /\ registry[normalizedName[ret.name]] = Nothing
    /\ misses[normalizedName[ret.name]] # Nothing
    /\ misses[normalizedName[ret.name]].reason = "low-confidence"

\* every outcome of a live fetch is in the cache, under the normalized name
\* and with the current time, when the resolution returns (unless the cache
\* write throws)
FetchOutcomeCached ==
    (Ran("resolve") /\ Last(ret'.layers) = "fetch"
         /\ "setCachedResult" \notin ret'.fails) =>
        LET entry == cache'[normalizedName[ret'.name]]
        IN  /\ entry # Nothing
            /\ entry.cachedAt = now
            /\ entry.found = ret'.result.found
            /\ entry.status = ret'.result.status
            /\ entry.source = ret'.result.source

\* C4 as stated: every live-fetch outcome is cached, and a resolution of a
\* name whose cache entry is inside its TTL, with the stores available, is
\* answered from the cache without a remote call.
C4_AnsweredFromCache ==
    [][/\ FetchOutcomeCached
       /\ (Ran("resolve") /\ ret'.fails = {}
               /\ CacheValid(normalizedName[ret'.name])) =>
              /\ ret'.remote = 0
              /\ ret'.result.source = "cache"]_vars

\* C4: every live-fetch outcome is cached, and a resolution of a name whose
\* cache entry is inside its TTL, with the stores available, makes no remote
\* call: it is answered by the registry if the registry holds the name (a
\* qualifying result was written there too) and by the cache otherwise.
C4_AnsweredWithoutFetch ==
    [][/\ FetchOutcomeCached
       /\ (Ran("resolve") /\ ret'.fails = {}
               /\ CacheValid(normalizedName[ret'.name])) =>
              /\ ret'.remote = 0
              /\ Last(ret'.layers) # "fetch"
              /\ ret'.result.source =
                     IF registry[normalizedName[ret'.name]] # Nothing
                     THEN "registry" ELSE "cache"]_vars

\* a second resolution inside the TTL has been answered by the registry
C4_Witness ==
    /\ ret.op = "resolve"
    /\ nops = 2
    /\ ret.fails = {}
    /\ CacheValid(normalizedName[ret.name])
    /\ cache[normalizedName[ret.name]].source = "wikipedia"
    /\ ret.result.source = "registry"
    /\ ret.remote = 0

\* C5: for a name that only the miss registry holds (not the static table,
\* not the registry, no valid cache entry), with the stores available, a
\* resolution less than 7 days after the entry was last seen returns the
\* synthetic found:false result with the stored reason, entityType and
\* seenCount and makes no remote call, and a resolution more than 7 days
\* after it goes to the live fetch.
C5_MissCooldown ==
    [][(/\ Ran("resolve")
        /\ ret'.fails = {}
        /\ celebrityData[ret'.name] = Nothing
        /\ registry[normalizedName[ret'.name]] = Nothing
        /\ ~CacheValid(normalizedName[ret'.name])
        /\ misses[normalizedName[ret'.name]] # Nothing) =>
          LET m == misses[normalizedName[ret'.name]]
          IN  /\ now - m.lastSeenAt < MISS_COOLDOWN_DAYS =>
                     /\ ret'.result =
                            [found |-> FALSE, status |-> <<"Known miss: ", m.reason>>,
                             source |-> "misses-registry", missReason |-> m.reason,
                             entityType |-> m.entityType, seenCount |-> m.seenCount]
                     /\ ret'.remote = 0
                     /\ Last(ret'.layers) = "misses"
              /\ now - m.lastSeenAt > MISS_COOLDOWN_DAYS =>
                     Last(ret'.layers) = "fetch"]_vars

\* a miss has been suppressed on the last day of its cooldown
C5_Witness ==
    /\ ret.op = "resolve"
    /\ ret.fails = {}
    /\ ret.result.source = "misses-registry"
    /\ cache[normalizedName[ret.name]] = Nothing
    /\ misses[normalizedName[ret.name]] # Nothing
    /\ now - misses[normalizedName[ret.name]].lastSeenAt = MISS_COOLDOWN_DAYS - 1
    /\ ret.result.seenCount = misses[normalizedName[ret.name]].seenCount

\* C6: addToRegistry returns false and leaves the registry unchanged unless
\* the result has found = true, a birth date and confidence >= 80; it
\* accepts confidence 80 with both dates; and every entry of the registry
\* has confidence >= 80 and a non-null ISO birth date.
C6_QualificationGate ==
    [][/\ Ran("add") =>
              LET input == ret'.result.input
                  hasDate == ~IsNullish(Get(input, "birthDate"))
              IN  /\ ~(input.found /\ hasDate /\ ConfidenceOr(input, 0) >= 80) =>
                         ~ret'.result.added
                  /\ ~ret'.result.added => registry' = registry
                  /\ (/\ input.found
                      /\ hasDate
                      /\ ~IsNullish(Get(input, "birthDateRaw"))
                      /\ ConfidenceOr(input, 0) = 80
                      /\ ret'.fails = {}) =>
                         /\ ret'.result.added
                         /\ registry'[normalizedName[ret'.name]] # Nothing
       /\ \A k \in Keys :
              registry'[k] # Nothing =>
                  /\ registry'[k].confidence >= 80
                  /\ ~IsNullish(registry'[k].birthDateRaw)]_vars

\* a result of confidence 80 has been added
C6_Witness ==
    /\ ret.op = "add"
    /\ ret.result.added
    /\ ret.result.input.confidence = 80
    /\ registry[normalizedName[ret.name]] # Nothing
    /\ registry[normalizedName[ret.name]].confidence = 80

\* C7: as long as deleteFromRegistry has removed nothing, a key of the
\* registry stays in the registry and keeps its addedAt, whatever
\* resolutions, reads, additions and name-variant links run.
C7_RegistryMonotonic ==
    [][~deleted' =>
          \A k \in Keys :
              registry[k] # Nothing =>
                  /\ registry'[k] # Nothing
                  /\ registry'[k].addedAt = registry[k].addedAt]_vars

\* C8: getCachedResult returns an entry written at t0 when read before
\* t0 + 30 days and nothing when read at or after t0 + 30 days, and the read
\* leaves the entry in the store.  Its callers show what it returned: a
\* resolution returns the entry (marked as from the cache) or goes on to the
\* next layer, the cache-status pass reports the name as cached or not.
C8_CacheTTL ==
    [][LET key == normalizedName[ret'.name]
           readsCache == /\ "getCachedResult" \notin ret'.fails
                         /\ "getFromRegistry" \notin ret'.fails
                         /\ celebrityData[ret'.name] = Nothing
                         /\ registry[key] = Nothing
                         /\ cache[key] # Nothing
           young == now - cache[key].cachedAt < CACHE_TTL_DAYS
       IN  /\ (Ran("status") /\ readsCache) =>
                  /\ young => ret'.result = [cached |-> TRUE, source |-> "blob-cache"]
                  /\ ~young => ret'.result = [cached |-> FALSE]
                  /\ cache' = cache
           /\ (Ran("resolve") /\ readsCache) =>
                  /\ young => /\ ret'.result = Spread(cache[key], [source |-> "cache"])
                              /\ Last(ret'.layers) = "cache"
                              /\ cache' = cache
                  /\ ~young => Len(ret'.layers) > 3]_vars

\* an entry has been read 30 days after it was written: the name was
\* reported as not cached and the entry is still in the store
C8_Witness ==
    /\ ret.op = "status"
    /\ ret.fails = {}
    /\ Len(ret.layers) = 3
    /\ ret.result = [cached |-> FALSE]
    /\ cache[normalizedName[ret.name]] # Nothing
    /\ now - cache[normalizedName[ret.name]].cachedAt = CACHE_TTL_DAYS

\* C9: the wait queue never holds more than maxQueueSize tasks, and execute
\* called while it holds maxQueueSize rejects the task with the queue-full
\* error without enqueuing it and without running it.
C9_QueueBounded ==
    [][/\ Len(limiter'.queue) <= maxQueueSize
       /\ (nextId' = nextId + 1 /\ Len(limiter.queue) >= maxQueueSize) =>
              /\ settled'[nextId] = "queue-full"
              /\ limiter' = limiter
              /\ loops' = loops
              /\ started' = started
              /\ finished' = finished]_vars

\* a task has been rejected while the queue was full
C9_Witness ==
    /\ Len(limiter.queue) = maxQueueSize
    /\ nextId > 1
    /\ settled[nextId - 1] = "queue-full"

\* the ids of the tasks execute accepted, in submission order
Accepted ==
    LET accepted(i) == settled[i] \notin {"none", "queue-full"}
    IN  SelectSeq([i \in 1..MaxTasks |-> i], accepted)

\* C10: the accepted tasks are started in submission order and complete in
\* submission order, at most one task is running, and at most one run of
\* processQueue is active.
C10_FifoSingleDrain ==
    /\ IsPrefix(started, Accepted)
    /\ IsPrefix(finished, started)
    /\ Cardinality({l \in loops : l.pc = "fn"}) <= 1
    /\ Cardinality(loops) <= 1

\* two tasks have completed, a third is running and more are waiting, after
\* a submission was rejected
C10_Witness ==
    /\ Len(finished) >= 2
    /\ \E l \in loops : l.pc = "fn"
    /\ Len(limiter.queue) >= 1
    /\ \E i \in 1..MaxTasks : settled[i] = "queue-full"

\* the first invocation of fn that ends the loop of withRetry: it returned,
\* or it was the last one allowed, or shouldRetry refused its error
EndsLoop(outs, options, i) ==
    \/ outs[i].kind = "returned"
    \/ i = options.maxRetries + 1
    \/ ~shouldRetry(options, outs[i].message)

FirstEnd(outs, options) ==
    CHOOSE i \in 1..Len(outs) :
        EndsLoop(outs, options, i) /\ \A j \in 1..(i - 1) : ~EndsLoop(outs, options, j)

\* C11: withRetry invokes fn at most maxRetries + 1 times; it stops at the
\* first invocation that returns, and gives its value; it stops with the
\* error of an invocation that is the last allowed or whose error shouldRetry
\* refuses, with no onRetry call and no wait for that invocation; every
\* earlier invocation is followed by one onRetry call and one wait.
C11_WithRetry ==
    ret.op = "withRetry" =>
        LET outs == ret.outs
            o == ret.options
            r == ret.result
            k == FirstEnd(outs, o)
        IN  /\ r.calls <= o.maxRetries + 1
            /\ r.calls = k
            /\ outs[k].kind = "returned" => r.ok /\ r.value = outs[k].value
            /\ outs[k].kind = "threw" => ~r.ok /\ r.message = outs[k].message
            /\ r.onRetry = [i \in 1..(k - 1) |-> i]
            /\ Len(r.waits) = k - 1
            /\ \A i \in 1..(k - 1) :
                   r.waits[i] = Min(o.baseDelayMs * Pow2(i - 1), o.maxDelayMs)

\* every allowed invocation failed with a retryable error, and fn had more
\* answers to give
C11_Witness ==
    /\ ret.op = "withRetry"
    /\ ret.options.maxRetries = RetryMaxRetries
    /\ ~ret.result.ok
    /\ ret.result.calls = RetryMaxRetries + 1
    /\ Len(ret.result.onRetry) = RetryMaxRetries
    /\ Len(ret.outs) > ret.result.calls

\* C12: in the retry loop of the live fetch, an attempt that the limiter
\* rejects with a full queue is the last one: the loop ends with that
\* rejection, no onRetry call or wait follows it and no further task is
\* given to the limiter.
C12_QueueFullNotRetried ==
    (ret.op = "withRetry" /\ ret.options = WikiRetryOptions) =>
        \A i \in 1..ret.result.calls :
            ret.attempts[i].queueFull =>
                /\ ret.result.calls = i
                /\ ~ret.result.ok
                /\ ret.result.message = MsgQueueFull(100)
                /\ Len(ret.result.waits) = i - 1
                /\ Len(ret.result.onRetry) = i - 1

\* the queue is full at the first attempt, with retries left and answers
\* waiting
C12_Witness ==
    /\ ret.op = "withRetry"
    /\ ret.options = WikiRetryOptions
    /\ ret.attempts[1].queueFull
    /\ Len(ret.attempts) > 1
    /\ ret.result.calls = 1
    /\ ret.result.remote = 0

\* the failures the retry is meant for: a network failure or a response of
\* status 500..599, of the search call or of the content call
IsServerSide(x) == IsNetworkError(x) \/ x.status \in 500..599

Retryable(a) ==
    /\ ~a.queueFull
    /\ \/ IsServerSide(a.search)
       \/ ~IsNetworkError(a.search) /\ a.search.ok /\ a.results /\ IsServerSide(a.content)

\* C13: a failed attempt of the live fetch that is not the last allowed one
\* is followed by another attempt exactly when it failed with a network
\* failure or with a response of status 500..599.
C13_RetriedExactlyOnServerSide ==
    (ret.op = "withRetry" /\ ret.options = WikiRetryOptions) =>
        \A i \in 1..ret.result.calls :
            (ret.outs[i].kind = "threw" /\ i <= ret.options.maxRetries) =>
                (ret.result.calls > i <=> Retryable(ret.attempts[i]))

\* C14: whatever store functions throw, whatever the limiter and the
\* knowledge source answer, a resolution ends with a result.  A lookup that
\* throws counts as a miss of its layer: the resolution goes on to the next
\* layer.  A write that throws leaves its store as it was, and the result is
\* returned all the same.
C14_ResolveNeverFails ==
    [][Ran("resolve") =>
        LET fails == ret'.fails
            layers == ret'.layers
        IN  /\ "found" \in DOMAIN ret'.result
            /\ "getFromRegistry" \in fails => Len(layers) >= 3
            /\ "getCachedResult" \in fails => Len(layers) >= 4
            /\ "checkMissesRegistry" \in fails => Last(layers) = "fetch"
            /\ "setCachedResult" \in fails => cache' = cache
            /\ "addToRegistry" \in fails => registry' = registry
            /\ "addToMissesRegistry" \in fails => misses' = misses
            /\ Last(layers) = "fetch" =>
                   ret'.result.source \in {"wikipedia", "wikipedia-error"}]_vars

\* the three lookups and two writes threw and the fetch failed as well
C14_Witness ==
    /\ ret.op = "resolve"
    /\ {"getFromRegistry", "getCachedResult", "checkMissesRegistry",
        "setCachedResult", "addToMissesRegistry"} \subseteq ret.fails
    /\ ret.result.source = "wikipedia-error"
    /\ nops > 1

\* the entries call c can have written to the registry and to the miss
\* registry: the entry built over nothing, or over the entry another call
\* wrote first
RegistryWrites(c) ==
    LET r == calls[c].result
        others == {RegistryEntry(calls[d].result, "wikipedia", Nothing) :
                      d \in {d \in Callers \ {c} : qualifiesForRegistry(calls[d].result)}}
    IN  IF qualifiesForRegistry(r)
        THEN {RegistryEntry(r, "wikipedia", e) : e \in {Nothing} \cup others}
        ELSE {}

MissWrites(c) ==
    LET name == calls[c].name
        Built(d, e) == MissEntry(name, MissReason(calls[d].result),
                                 MissOptions(name, calls[d].result, Null), e)
        others == {Built(d, Nothing) :
                      d \in {d \in Callers \ {c} : ~qualifiesForRegistry(calls[d].result)}}
    IN  IF ~qualifiesForRegistry(calls[c].result)
        THEN {Built(c, e) : e \in {Nothing} \cup others}
        ELSE {}

\* C15: when two concurrent resolutions of one name have both fetched and
\* both returned, the cache entry of the key is the whole result of one of
\* the two fetches, and an entry of the key in the registry or in the miss
\* registry is an entry one of the two calls built and wrote.
C15_DoubleFetchKeepsWholeValues ==
    (/\ \A c \in Callers : calls[c].pc = "done" /\ calls[c].fetched
     /\ \A c, d \in Callers : calls[c].name = calls[d].name) =>
        LET key == normalizedName[calls["A"].name]
        IN  /\ cache[key] \in
                   {ToJSON(Spread(calls[c].result, [cachedAt |-> now])) : c \in Callers}
            /\ registry[key] # Nothing =>
                   registry[key] \in UNION {RegistryWrites(c) : c \in Callers}
            /\ misses[key] # Nothing =>
                   misses[key] \in UNION {MissWrites(c) : c \in Callers}

\* both calls fetched and got different results; one went to the registry,
\* the other to the miss registry
C15_Witness ==
    /\ \A c \in Callers : calls[c].pc = "done" /\ calls[c].fetched
    /\ calls["A"].name = calls["B"].name
    /\ calls["A"].result # calls["B"].result
    /\ registry[normalizedName[calls["A"].name]] # Nothing
    /\ misses[normalizedName[calls["A"].name]] # Nothing

\* C16: as long as no store function has thrown, two resolutions of one key
\* that reached the live fetch are at least the cache TTL apart, and a live
\* fetch runs fetchFromWikipedia at most WIKI_MAX_RETRIES + 1 times.
C16_OneFetchPerTTL ==
    nfails = 0 =>
        /\ \A k \in Keys : \A i, j \in 1..Len(fetches[k]) :
               i < j => fetches[k][j] - fetches[k][i] >= CACHE_TTL_DAYS
        /\ (ret.op = "resolve" /\ ret.layers # <<>> /\ Last(ret.layers) = "fetch") =>
               ret.remote <= WIKI_MAX_RETRIES + 1

\* a key was fetched, answered from the stores, and fetched again when the
\* cache entry had expired
C16_Witness ==
    /\ nfails = 0
    /\ nops = 3
    /\ \E k \in Keys : Len(fetches[k]) = 2
    /\ ret.op = "resolve"
    /\ ret.remote = WIKI_MAX_RETRIES + 1

\* C17: every request to the knowledge source, the search call and the
\* content call of every attempt, on every lookup path, is issued by a task
\* of the knowledge-source rate limiter.
C17_EveryRequestLimited ==
    ret.op = "lookup" =>
        \A i \in 1..Len(ret.requests) : ret.requests[i].limited

\* C18: a resolution answered by the cache returns the cached result and
\* makes no remote call, and leaves the cache and the miss registry as they
\* were.  If the result qualifies for the registry, the registry holds it
\* afterwards, as a new entry of origin 'cache'; if it does not qualify, the
\* registry is unchanged too.
C18_LazyPromotion ==
    [][(Ran("resolve") /\ Last(ret'.layers) = "cache") =>
        LET key == normalizedName[ret'.name]
            cached == getCachedResult(ret'.name, {})
        IN  /\ ret'.result = cached
            /\ ret'.remote = 0
            /\ cache' = cache
            /\ misses' = misses
            /\ inflight' = inflight
            /\ \A k \in Keys \ {key} : registry'[k] = registry[k]
            /\ IF qualifiesForRegistry(cached)
               THEN /\ registry'[key] # Nothing
                    /\ registry'[key].source = "cache"
                    /\ registry'[key].birthDate = cached.birthDate
                    /\ registry'[key].birthDateRaw = cached.birthDateRaw
                    /\ registry'[key].confidence = cached.confidence
                    /\ registry'[key].addedAt = now
               ELSE registry'[key] = registry[key]]_vars

\* the registry entry of a fetched name was deleted, and the next resolution
\* promoted the cached result
C18_Witness ==
    /\ ret.op = "resolve"
    /\ Last(ret.layers) = "cache"
    /\ qualifiesForRegistry(ret.result)
    /\ deleted
    /\ registry[normalizedName[ret.name]] # Nothing
    /\ registry[normalizedName[ret.name]].source = "cache"

\* the titles of a list of adds, each once, ordered by its latest add
RECURSIVE ByLatestAdd(_)
ByLatestAdd(titles) ==
    IF titles = <<>> THEN <<>>
    ELSE LET t == titles[Len(titles)]
             earlier == SelectSeq(SubSeq(titles, 1, Len(titles) - 1), LAMBDA x : x # t)
         IN  IF Falsy(t) THEN ByLatestAdd(SubSeq(titles, 1, Len(titles) - 1))
             ELSE Append(ByLatestAdd(earlier), t)

\* the list after a list of adds, where an add whose title is in the list
\* leaves the list as it is and any other add appends its title and drops
\* the oldest title beyond three
RECURSIVE ByAppend(_)
ByAppend(titles) ==
    IF titles = <<>> THEN <<>>
    ELSE LET t == titles[Len(titles)]
             list == ByAppend(SubSeq(titles, 1, Len(titles) - 1))
         IN  IF Falsy(t) \/ SeqIncludes(list, t) THEN list
             ELSE IF Len(list) < 3 THEN Append(list, t)
             ELSE Append(SubSeq(list, 2, Len(list)), t)

Elements(seq) == {seq[i] : i \in 1..Len(seq)}

\* what every add does to the counters and dates of the entry
AddCounts ==
    LET key == normalizedName[ret'.name]
        before == misses[key]
        after == misses'[key]
    IN  /\ after # Nothing
        /\ after.lastSeenAt = now
        /\ IF before = Nothing
           THEN /\ after.seenCount = 1
                /\ after.firstSeenAt = now
                /\ after.originalName = ret'.name
           ELSE /\ after.seenCount = before.seenCount + 1
                /\ after.firstSeenAt = before.firstSeenAt
                /\ after.originalName = before.originalName
        /\ Len(after.sampleMarkets) <= 3
        /\ \A i, j \in 1..Len(after.sampleMarkets) :
               i # j => after.sampleMarkets[i] # after.sampleMarkets[j]

\* C19 as stated: an add creates the entry with seenCount 1 or increments
\* seenCount by 1, sets lastSeenAt and keeps firstSeenAt and originalName;
\* the sample list has at most 3 distinct titles, and they are the three
\* titles most recently passed to an add.
C19_MostRecentTitles ==
    [][Ran("addMiss") =>
        /\ AddCounts
        /\ LET recent == ByLatestAdd(ret'.titles)
               list == misses'[normalizedName[ret'.name]].sampleMarkets
           IN  Elements(list)
                   = Elements(SubSeq(recent, Len(recent) - Len(list) + 1, Len(recent)))]_vars

\* C19, amended: the counters and dates as stated; the sample list has at
\* most 3 distinct titles, and it is the list of the last three titles
\* appended, an add whose title is already in the list appending nothing.
C19_LastAppendedTitles ==
    [][Ran("addMiss") =>
        /\ AddCounts
        /\ misses'[normalizedName[ret'.name]].sampleMarkets = ByAppend(ret'.titles)]_vars

\* a title still in the list was passed again, then a fourth title came
C19_Witness ==
    /\ ret.op = "addMiss"
    /\ Len(ret.titles) = 5
    /\ ret.titles[4] = ret.titles[1]
    /\ Cardinality(Elements(ret.titles)) = 4
    /\ Null \notin Elements(ret.titles)
    /\ misses[normalizedName[ret.name]].seenCount = 5
    /\ misses[normalizedName[ret.name]].firstSeenAt < now
    /\ ret.titles[1] \notin Elements(misses[normalizedName[ret.name]].sampleMarkets)

\* C20: resolveMiss on a key that has an entry returns true and leaves the
\* entry in the store with resolvedBirthDate and resolvedAt attached and
\* reason, seenCount, firstSeenAt, lastSeenAt and the sample markets as
\* they were; on a key without entry it returns false and the store is
\* unchanged.  In a sequential run, no later add or cooldown check of the
\* key, nor the landing of its write, removes or changes the attached
\* resolvedBirthDate.
C20_ResolveMissKeepsEntry ==
    [][/\ Ran("resolveMiss") =>
            LET key == normalizedName[ret'.name]
                before == misses[key]
                after == misses'[key]
            IN  /\ \A k \in Keys \ {key} : misses'[k] = misses[k]
                /\ IF before = Nothing
                   THEN ~ret'.resolved /\ after = Nothing
                   ELSE /\ ret'.resolved
                        /\ after # Nothing
                        /\ after.resolvedBirthDate = ret'.birthDate
                        /\ after.resolvedAt = ToString(now)
                        /\ after.reason = before.reason
                        /\ after.seenCount = before.seenCount
                        /\ after.firstSeenAt = before.firstSeenAt
                        /\ after.lastSeenAt = before.lastSeenAt
                        /\ after.sampleMarkets = before.sampleMarkets
                        /\ after.originalName = before.originalName
       /\ \A k \in Keys :
              (misses[k] # Nothing /\ ~IsNullish(Get(misses[k], "resolvedBirthDate"))) =>
                  /\ misses'[k] # Nothing
                  /\ Get(misses'[k], "resolvedBirthDate") = Get(misses[k], "resolvedBirthDate")
                  /\ \A w \in inflight' \ inflight :
                         (w.store = "misses" /\ w.key = k) =>
                             Get(w.value, "resolvedBirthDate")
                                 = Get(misses[k], "resolvedBirthDate")]_vars

\* an entry was resolved; a later cooldown check counted it once more, its
\* write has landed, and the resolved date is still there
C20_Witness ==
    /\ ret.op = "checkMiss"
    /\ ret.entry # Nothing
    /\ inflight = {}
    /\ misses[normalizedName[ret.name]].seenCount = 2
    /\ Get(misses[normalizedName[ret.name]], "resolvedBirthDate") = "June 1, 1980"
    /\ misses[normalizedName[ret.name]].lastSeenAt > misses[normalizedName[ret.name]].firstSeenAt

\* the key of the check just made holds an entry whose cooldown is over
CheckedExpired ==
    /\ Ran("checkMiss")
    /\ misses[normalizedName[ret'.name]] # Nothing
    /\ now - misses[normalizedName[ret'.name]].lastSeenAt >= MISS_COOLDOWN_DAYS

CachedShare(pct) ==
    /\ Len(ret.names) > 0
    /\ 100 * Cardinality({i \in 1..Len(ret.names) :
                             normalizeName(ret.names[i]) \in ret.cachedNames})
           >= pct * Len(ret.names)

\* C22 as stated: the size is the maximum when at least 80% of the names
\* are cached, twice the base when at least 50% are, the base otherwise (an
\* empty list has no share and gets the base).
C22_TwiceBase ==
    ret.op = "calculateBatchSize" =>
        ret.size = IF CachedShare(80) THEN ret.maxBatchSize
                   ELSE IF CachedShare(50) THEN 2 * ret.baseBatchSize
                   ELSE ret.baseBatchSize

\* C22, amended: the size is the maximum when at least 80% of the names are
\* cached, the smaller of twice the base and the maximum when at least 50%
\* are, the base otherwise; an empty list gets the base.
C22_TwiceBaseCapped ==
    ret.op = "calculateBatchSize" =>
        /\ ret.size = IF CachedShare(80) THEN ret.maxBatchSize
                      ELSE IF CachedShare(50)
                           THEN Min(2 * ret.baseBatchSize, ret.maxBatchSize)
                      ELSE ret.baseBatchSize
        /\ ret.names = <<>> => ret.size = ret.baseBatchSize

\* three of five names are cached and twice the base is over the maximum
C22_Witness ==
    /\ ret.op = "calculateBatchSize"
    /\ Len(ret.names) = 5
    /\ CachedShare(50) /\ ~CachedShare(80)
    /\ 2 * ret.baseBatchSize > ret.maxBatchSize
    /\ ret.size = ret.maxBatchSize

\* the market records of a list of people, one after the other
RECURSIVE MarketsOf(_)
MarketsOf(people) ==
    IF people = <<>> THEN <<>> ELSE Head(people).markets \o MarketsOf(Tail(people))

\* how often market m occurs in a list of markets
Occurrences(markets, m) == Cardinality({i \in 1..Len(markets) : markets[i] = m})

Settles(i) == settled[i] = "pending" /\ settled'[i] # "pending"

\* C24: every accepted task is eventually started and its promise settled;
\* the promise that settles is that of the task that was running, no other
\* promise changes in that step, and the drain goes on if tasks are waiting;
\* whenever tasks are waiting exactly one drain is active.
C24_EveryTaskSettles ==
    /\ \A i \in 1..MaxTasks :
           (settled[i] = "pending") ~>
               (settled[i] \in {"resolved", "rejected"} /\ i \in Elements(started))
    /\ [][\A i \in 1..MaxTasks :
             Settles(i) =>
                 /\ settled'[i] \in {"resolved", "rejected"}
                 /\ started # <<>> /\ i = Last(started)
                 /\ finished' = Append(finished, i)
                 /\ \A k \in 1..MaxTasks : k # i => settled'[k] = settled[k]
                 /\ limiter.queue # <<>> => loops' # {}]_vars
    /\ [](limiter.queue # <<>> =>
             limiter.processing /\ Cardinality(loops) = 1)

\* the first task threw, and the second, enqueued while the first was
\* running, was run by the same drain and resolved
C24_Witness ==
    /\ settled[1] = "rejected"
    /\ settled[2] = "resolved"
    /\ finished = <<1, 2>>
    /\ clock > MaxClock

\* a task is started in this step
Starts == Len(started') = Len(started) + 1

\* the tokens of the bucket after a refill at the time of the clock, in
\* thousandths
Refilled ==
    Min(maxRequestsPerSecond * 1000,
        limiter.tokens + (clock - limiter.lastRefill) * maxRequestsPerSecond)

\* C25: the bucket always holds between 0 and maxTokens tokens; a step that
\* refills it adds the elapsed seconds times the rate, capped at maxTokens;
\* a task is started only when the refilled bucket holds a whole token and
\* the start removes exactly one; and the (N + k)-th start on a bucket that
\* was full at time 0 does not come before k / N seconds.
C25_TokenBucket ==
    /\ [](0 <= limiter.tokens /\ limiter.tokens <= maxRequestsPerSecond * 1000)
    /\ [][/\ limiter'.lastRefill \in {limiter.lastRefill, clock}
          /\ limiter'.tokens + (IF Starts THEN 1000 ELSE 0)
                 = IF limiter'.lastRefill # limiter.lastRefill
                   THEN Refilled ELSE limiter.tokens
          /\ Starts =>
                 /\ Refilled >= 1000
                 /\ limiter'.lastRefill = clock
                 /\ (Len(started') - maxRequestsPerSecond) * 1000
                        <= clock * maxRequestsPerSecond]_vars

\* the start after the bucket was emptied comes exactly when the token it
\* needs has been refilled, and empties the bucket again
C25_Witness ==
    /\ Len(started) = maxRequestsPerSecond + 1
    /\ clock * maxRequestsPerSecond = 1000
    /\ limiter.tokens = 0
    /\ limiter.lastRefill = clock

\* the resolution of this step was answered by the miss registry
Suppressed == Ran("resolve") /\ Last(ret'.layers) = "misses"

Shadowed == \A k \in Keys : MissInCooldown(k) => CacheValid(k)

\* the run c of lookupPersonOptimized has returned a miss-registry result
KnownMissReturned(c) == Get(calls[c].result, "source") = "misses-registry"

\* the run c goes past the cache in this step
PassesCache(c) ==
    calls[c].pc = "getCachedResult" /\ calls'[c].pc = "checkMissesRegistry"

\* C27 as stated: as long as no store function has thrown, every key with a
\* miss entry in cooldown has a valid cache entry, and no resolution returns
\* a miss-registry result.
C27_NeverMissResult ==
    nfails = 0 =>
        /\ Shadowed
        /\ \A c \in Callers : ~KnownMissReturned(c)

\* C27, amended: as long as no store function has thrown, every key with a
\* miss entry in cooldown has a valid cache entry; a resolution goes past
\* the cache only when the cache read throws or the store holds no valid
\* entry of the key at the time of the read; and a resolution returns a
\* miss-registry result only after a cache read or write has thrown, or
\* when another resolution of the same key, which fetched, has written the
\* cache entry after this one read the cache.
C27_CacheShadowsMisses ==
    /\ [](nfails = 0 => Shadowed)
    /\ [][\A c \in Callers :
             PassesCache(c) =>
                 \/ nfails' = nfails + 1
                 \/ ~CacheValid(normalizedName[calls[c].name])]_vars
    /\ [][\A c \in Callers :
             (~KnownMissReturned(c) /\ KnownMissReturned(c)') =>
                 \/ nfails > 0
                 \/ \E d \in Callers \ {c} :
                        /\ normalizedName[calls[d].name] = normalizedName[calls[c].name]
                        /\ calls[d].fetched
                        /\ CacheValid(normalizedName[calls[c].name])]_vars

\* with no failure at all, a resolution has returned a miss-registry result
\* days after it read the cache, while the cache holds a valid entry that the
\* other resolution wrote
C27_Witness ==
    /\ nfails = 0
    /\ KnownMissReturned("B")
    /\ calls["A"].fetched /\ calls["A"].pc = "done"
    /\ CacheValid(normalizedName[calls["B"].name])
    /\ now = MISS_COOLDOWN_DAYS - 1

\* the write w reaches its store in this step
Lands(w) == w \in inflight /\ inflight' = inflight \ {w}

\* C28: deleteFromRegistry and deleteMiss remove the entry of the key and
\* leave the writes in flight alone; a write that lands stores its entry
\* also under a key that was deleted since the read; and an entry that
\* appears under a key after its deletion is the entry a read saw before
\* the deletion, with its access or seen count raised by one.
C28_ReadUndoesDelete ==
    /\ [][(Ran("delete") /\ ret'.result.deleted) =>
             /\ registry'[normalizedName[ret'.name]] = Nothing
             /\ inflight' = inflight]_vars
    /\ [][(Ran("deleteMiss") /\ ret'.deleted) =>
             /\ misses'[normalizedName[ret'.name]] = Nothing
             /\ inflight' = inflight]_vars
    /\ [][\A w \in inflight :
             Lands(w) =>
                 /\ w.value # Nothing
                 /\ w.store = "registry" => registry'[w.key] = w.value
                 /\ w.store = "misses" => misses'[w.key] = w.value]_vars
    /\ [][\A k \in Keys :
             /\ (deleted /\ registry[k] = Nothing /\ registry'[k] # Nothing) =>
                    \E w \in inflight :
                        /\ Lands(w) /\ w.store = "registry" /\ w.key = k
                        /\ registry'[k].accessCount >= 2
             /\ (ret.op = "deleteMiss" /\ ret' = ret
                     /\ misses[k] = Nothing /\ misses'[k] # Nothing) =>
                    \E w \in inflight :
                        /\ Lands(w) /\ w.store = "misses" /\ w.key = k
                        /\ misses'[k].seenCount >= 2]_vars

\* the registry entry deleted after a read is back, and so is the miss
\* entry deleted after an in-cooldown check: nothing was added since the
\* deletions and no write is in flight
C28_Witness ==
    LET key == normalizedName[ret.name]
    IN  /\ deleted
        /\ registry[key] # Nothing
        /\ registry[key].accessCount = 2
        /\ ret.op = "deleteMiss"
        /\ ret.deleted
        /\ misses[key] # Nothing
        /\ misses[key].seenCount = 2
        /\ inflight = {}

\* the write w was built over an entry that is no longer the one stored
Stale(w) ==
    \/ misses[w.key] = Nothing
    \/ w.value # Spread(misses[w.key],
                        [lastSeenAt |-> w.value.lastSeenAt,
                         seenCount |-> misses[w.key].seenCount + 1])

\* the step keeps the entry of key k, its manual resolution, and does not
\* lower its seenCount
KeepsUpdates(k) ==
    misses[k] # Nothing =>
        /\ misses'[k] # Nothing
        /\ misses'[k].seenCount >= misses[k].seenCount
        /\ Get(misses[k], "resolvedBirthDate") # Undef =>
               Get(misses'[k], "resolvedBirthDate") # Undef

\* C29: a write that lands replaces the whole entry by the one it carries;
\* every step but the landing of a write built over an entry that has been
\* replaced since keeps the manual resolution and does not lower seenCount;
\* and an operation that begins with no write in flight leaves no such
\* write behind, so that nothing is lost when every write lands before the
\* next operation begins.
C29_LostUpdates ==
    /\ [][\A w \in inflight :
             (Lands(w) /\ w.store = "misses") => misses'[w.key] = w.value]_vars
    /\ [][(\A w \in inflight : Lands(w) => ~Stale(w)) =>
             \A k \in Keys : KeepsUpdates(k)]_vars
    /\ [][(nops' = nops + 1 /\ inflight = {}) =>
             \A w \in inflight' : ~Stale(w)']_vars

\* a resolveMiss has completed and two adds have raised seenCount since a
\* check read the entry; the write of that check is on its way and will
\* replace the entry by the one the check read: with a lower seenCount and
\* without the resolvedBirthDate
C29_Witness ==
    /\ ret.op = "resolveMiss"
    /\ ret.resolved
    /\ \E w \in inflight :
           /\ w.store = "misses"
           /\ misses[w.key] # Nothing
           /\ Get(misses[w.key], "resolvedBirthDate") = ret.birthDate
           /\ Get(w.value, "resolvedBirthDate") = Undef
           /\ w.value.seenCount < misses[w.key].seenCount

\* the tasks execute accepted whose promise has not settled, and the tasks
\* it rejected
Unsettled == {i \in 1..MaxTasks : settled[i] = "pending"}
QueueFullRejected == {i \in 1..MaxTasks : settled[i] = "queue-full"}

\* C30: the accepted tasks that have not settled are the waiting ones and
\* the running one, at most maxQueueSize + 1; and when more than
\* maxQueueSize + 1 tasks have been submitted to the new limiter before the
\* first has completed, maxQueueSize + 1 of them were accepted and the
\* others rejected.
C30_RunningNotCounted ==
    /\ Cardinality(Unsettled) <= maxQueueSize + 1
    /\ Cardinality(Unsettled)
           = Len(limiter.queue) + Cardinality({l \in loops : l.pc = "fn"})
    /\ (finished = <<>> /\ nextId - 1 > maxQueueSize + 1) =>
           /\ Unsettled = 1..(maxQueueSize + 1)
           /\ QueueFullRejected = (maxQueueSize + 2)..(nextId - 1)
           /\ started = <<1>>

\* all the tasks were submitted at time 0: the first is running, the next
\* maxQueueSize are waiting and the ones after them were rejected
C30_Witness ==
    /\ clock = 0
    /\ nextId = MaxTasks + 1
    /\ finished = <<>>
    /\ Len(limiter.queue) = maxQueueSize
    /\ Cardinality(Unsettled) = maxQueueSize + 1
    /\ Cardinality(QueueFullRejected) = MaxTasks - maxQueueSize - 1

====
